---- MODULE Spec2Model ----
(***************************************************************************)
(* Spaceflight News: the page data loader (routes/_index.tsx) and the API  *)
(* client (services/spaceflight-api.ts) as a state machine.                *)
(*                                                                         *)
(* JavaScript runs each handler to completion; the model has one action    *)
(* per stretch of code between two awaits, plus the events of the          *)
(* environment (the upstream's answers and the 10 second timer).           *)
(***************************************************************************)
EXTENDS Integers, Sequences, FiniteSets, TLC

(* ------------------------------ bounds --------------------------------- *)
\* longest value of the limit query parameter, in characters
MaxParamLen == 3
\* most articles one upstream answer carries
MaxArticles == 3

(* --------------------------- JavaScript values -------------------------- *)
\* a JavaScript number is an integer or NaN
NaN == [nan |-> TRUE, n |-> 0]
Num(k) == [nan |-> FALSE, n |-> k]

\* Math.min(a, b): NaN when either argument is NaN
MathMin(a, b) ==
  IF a.nan \/ b.nan THEN NaN
  ELSE IF a.n <= b.n THEN a ELSE b

\* the optional numeric status of a SpaceflightApiError
NoStatus == [has |-> FALSE, n |-> 0]
Status(k) == [has |-> TRUE, n |-> k]

\* strings that are computed on are sequences of one-character strings
Alphabet == {"0", "2", "5", "a", "x", "-", " "}

RECURSIVE StringsUpTo(_)
StringsUpTo(k) ==
  IF k = 0 THEN {<<>>}
  ELSE LET shorter == StringsUpTo(k - 1)
       IN shorter \cup {Append(s, c) : s \in {t \in shorter : Len(t) = k - 1}, c \in Alphabet}

\* url.searchParams.get("limit"): null when absent, else the decoded string
QueryParams ==
  {[present |-> FALSE, val |-> <<>>]}
    \cup {[present |-> TRUE, val |-> s] : s \in StringsUpTo(MaxParamLen)}

DigitValue(c) ==
  CASE c = "0" -> 0 [] c = "1" -> 1 [] c = "2" -> 2 [] c = "3" -> 3
    [] c = "4" -> 4 [] c = "5" -> 5 [] c = "6" -> 6 [] c = "7" -> 7
    [] c = "8" -> 8 [] c = "9" -> 9 [] c = "a" -> 10 [] c = "b" -> 11
    [] c = "c" -> 12 [] c = "d" -> 13 [] c = "e" -> 14 [] c = "f" -> 15
    [] OTHER -> 99

IsDigit(c, radix) == DigitValue(c) < radix

RECURSIVE TrimStart(_)
TrimStart(s) ==
  IF s # <<>> /\ Head(s) = " " THEN TrimStart(Tail(s)) ELSE s

\* the value of the longest prefix of s made of digits of the radix,
\* acc the value read so far, seen whether a digit was read
RECURSIVE ParseDigits(_, _, _, _)
ParseDigits(s, radix, acc, seen) ==
  IF s # <<>> /\ IsDigit(Head(s), radix)
  THEN ParseDigits(Tail(s), radix, acc * radix + DigitValue(Head(s)), TRUE)
  ELSE IF seen THEN Num(acc) ELSE NaN

\* parseInt(string) with no radix argument
parseInt(str) ==
  LET s0 == TrimStart(str)
      neg == s0 # <<>> /\ Head(s0) = "-"
      s1 == IF neg THEN Tail(s0) ELSE s0
      hex == Len(s1) >= 2 /\ s1[1] = "0" /\ s1[2] = "x"
      s2 == IF hex THEN Tail(Tail(s1)) ELSE s1
      r == ParseDigits(s2, IF hex THEN 16 ELSE 10, 0, FALSE)
  IN IF r.nan THEN NaN ELSE IF neg THEN Num(0 - r.n) ELSE r

\* the default the loader substitutes for a null or empty parameter: "20"
DefaultLimitString == <<"2", "0">>
\* the cap on the number of articles requested from upstream
LimitCap == 50

\* Math.min(parseInt(url.searchParams.get("limit") || "20"), 50)
ResolveLimit(q) ==
  MathMin(parseInt(IF q.present /\ q.val # <<>> THEN q.val ELSE DefaultLimitString),
          Num(LimitCap))

(* ------------------------------ JSON values ----------------------------- *)
\* what response.json() produces: a parsed JSON value, tagged with its type
JNull == [t |-> "null"]
JUndefined == [t |-> "undefined"]
JNum(k) == [t |-> "number", n |-> k]
JStr(s) == [t |-> "string", s |-> s]
JArr(items) == [t |-> "array", items |-> items]
JObj(fields) == [t |-> "object", fields |-> fields]

\* typeof v
TypeOf(v) == IF v.t \in {"null", "array", "object"} THEN "object" ELSE v.t

\* !v
Falsy(v) ==
  \/ v.t \in {"null", "undefined"}
  \/ v.t = "number" /\ v.n = 0
  \/ v.t = "string" /\ v.s = ""

\* (v as Record<string, unknown>).name
Prop(v, name) ==
  IF v.t = "object" /\ name \in DOMAIN v.fields THEN v.fields[name]
  ELSE JUndefined

\* Array.isArray(v)
IsArray(v) == v.t = "array"

\* validateArticle without the test of the type of id
validateArticle_IdAnyType(article) ==
  IF Falsy(article) \/ TypeOf(article) # "object" THEN FALSE
  ELSE /\ TypeOf(Prop(article, "title")) = "string"
       /\ TypeOf(Prop(article, "summary")) = "string"
       /\ TypeOf(Prop(article, "image_url")) = "string"
       /\ TypeOf(Prop(article, "news_site")) = "string"
       /\ TypeOf(Prop(article, "published_at")) = "string"
       /\ TypeOf(Prop(article, "url")) = "string"

\* validateArticle(article)
validateArticle(article) ==
  IF Falsy(article) \/ TypeOf(article) # "object" THEN FALSE
  ELSE /\ TypeOf(Prop(article, "id")) = "number"
       /\ TypeOf(Prop(article, "title")) = "string"
       /\ TypeOf(Prop(article, "summary")) = "string"
       /\ TypeOf(Prop(article, "image_url")) = "string"
       /\ TypeOf(Prop(article, "news_site")) = "string"
       /\ TypeOf(Prop(article, "published_at")) = "string"
       /\ TypeOf(Prop(article, "url")) = "string"

\* validateApiResponse(data)
validateApiResponse(data) ==
  IF Falsy(data) \/ TypeOf(data) # "object" THEN FALSE
  ELSE /\ TypeOf(Prop(data, "count")) = "number"
       /\ (Prop(data, "next").t = "null" \/ TypeOf(Prop(data, "next")) = "string")
       /\ (Prop(data, "previous").t = "null" \/ TypeOf(Prop(data, "previous")) = "string")
       /\ IsArray(Prop(data, "results"))
       /\ \A i \in 1..Len(Prop(data, "results").items) :
            validateArticle(Prop(data, "results").items[i])

\* the i-th article of an upstream answer
Article(i) ==
  JObj([id |-> JNum(i), title |-> JStr("title"), summary |-> JStr("summary"),
        image_url |-> JStr("image"), news_site |-> JStr("site"),
        published_at |-> JStr("2024-01-15T10:00:00Z"), url |-> JStr("url")])

\* an article that lacks required fields
PartialArticle == JObj([id |-> JNum(1), title |-> JStr("title")])

\* an article whose id has the wrong type
MistypedArticle ==
  JObj([id |-> JStr("1"), title |-> JStr("title"), summary |-> JStr("summary"),
        image_url |-> JStr("image"), news_site |-> JStr("site"),
        published_at |-> JStr("2024-01-15T10:00:00Z"), url |-> JStr("url")])

ArticleList(k) == [i \in 1..k |-> Article(i)]

\* a list response body with the given results
ListBody(results) ==
  JObj([count |-> JNum(Len(results)), next |-> JNull, previous |-> JNull,
        results |-> JArr(results)])

\* the parsed bodies the upstream may answer with
Bodies ==
  {ListBody(ArticleList(k)) : k \in 0..MaxArticles}
    \cup {ListBody(<<Article(1), PartialArticle>>),
          ListBody(<<MistypedArticle>>),
          JObj([count |-> JStr("1"), next |-> JNull, previous |-> JNull,
                results |-> JArr(<<>>)]),
          JObj([count |-> JNum(1), next |-> JNum(2), previous |-> JNull,
                results |-> JArr(<<>>)]),
          JObj([count |-> JNum(1), next |-> JStr("next"), previous |-> JStr("prev"),
                results |-> JObj([id |-> JNum(1)])]),
          JObj([invalid |-> JStr("response")]),
          JArr(<<>>), JNull, JNum(0), JStr("text"),
          Article(1), PartialArticle, MistypedArticle}

(* ------------------------------ thrown values --------------------------- *)
NoCode == [has |-> FALSE, s |-> ""]
Code(s) == [has |-> TRUE, s |-> s]

\* new SpaceflightApiError(message, status, code)
SpaceflightApiError(message, status, code) ==
  [cls |-> "SpaceflightApiError", name |-> "SpaceflightApiError",
   message |-> message, status |-> status, code |-> code]

\* an Error that is not a SpaceflightApiError, with its name and message
PlainError(name, message) ==
  [cls |-> "Error", name |-> name, message |-> message,
   status |-> NoStatus, code |-> NoCode]

\* a thrown value that is not an Error (a string, an object literal)
NonErrorValue ==
  [cls |-> "value", name |-> "", message |-> "", status |-> NoStatus, code |-> NoCode]

\* error instanceof SpaceflightApiError
IsApiError(e) == e.cls = "SpaceflightApiError"
\* error instanceof Error
IsError(e) == e.cls \in {"Error", "SpaceflightApiError"}

\* what controller.abort() makes the pending fetch reject with
AbortError == PlainError("AbortError", "The operation was aborted")

\* the transport failures of fetch: a TypeError, or (under a replaced fetch)
\* any thrown value
TransportFailures == {PlainError("TypeError", "fetch failed"), NonErrorValue}

(* ------------------------------ the upstream ---------------------------- *)
\* HTTP status codes the upstream answers with
Statuses == {200, 204, 304, 400, 404, 429, 500, 503}

StatusText(status) ==
  CASE status = 200 -> "OK" [] status = 204 -> "No Content"
    [] status = 304 -> "Not Modified" [] status = 400 -> "Bad Request"
    [] status = 404 -> "Not Found" [] status = 429 -> "Too Many Requests"
    [] status = 500 -> "Internal Server Error"
    [] status = 503 -> "Service Unavailable" [] OTHER -> ""

\* response.ok
Ok(status) == status >= 200 /\ status <= 299

None == [kind |-> "none"]

(* ------------------------------- the state ------------------------------ *)
VARIABLES
  pc,            \* where the invocation is suspended
  op,            \* "loader", "mocked" (loader over a replaced client) or "byId"
  request,       \* the limit query parameter of the page request
  limit,         \* the limit the loader resolved and passed to the client
  timer,         \* the timeout of makeRequest: none, armed, cleared, fired
  net,           \* the outbound request: idle, sent, headers, complete, failed, aborted
  fetchP,        \* the promise fetch() returned
  mrResult,      \* how makeRequest settled
  jsonP,         \* the promise response.json() returned
  faResult,      \* how fetchArticles / fetchArticleById settled
  clientResult,  \* how the call the caller awaits settled
  response,      \* the Response the loader returned
  articleId,     \* the id fetchArticleById was called with, 0 when none
  nClientCalls,  \* client calls made by this invocation
  nFetch         \* HTTP requests issued by this invocation

\* the state of the one invocation above
clientVars == <<pc, op, request, limit, timer, net, fetchP, mrResult, jsonP, faResult,
                clientResult, response, articleId, nClientCalls, nFetch>>

\* loader invocations in flight at the same time
VARIABLES
  inv,           \* per invocation: the locals of loader, fetchArticles, makeRequest
  own,           \* per invocation: its request and what its upstream and timer did
  actor          \* the invocation the last step belonged to, 0 at the start

concVars == <<inv, own, actor>>

\* one debounced function, the timers of the runtime and the clock
VARIABLES
  now,           \* the clock, in milliseconds
  wait,          \* the wait the debounced function was created with
  timeout,       \* the closure variable: the id of the last timer set, 0 while undefined
  timers,        \* the timers of the runtime that are set and have not run
  calls,         \* the calls made to the wrapper so far: arguments and time
  runs,          \* the executions of the wrapped function so far
  nextId         \* the id the next setTimeout returns

debVars == <<now, wait, timeout, timers, calls, runs, nextId>>

\* the search bar on the index page
VARIABLES
  localValue,    \* SearchBar: the text in the input
  searchTerm,    \* Index: the term the list is filtered by, SearchBar's value prop
  clock,         \* the time, in milliseconds
  keystrokes,    \* the change events of the input so far: new text and time
  propagated     \* the calls of the parent's onChange so far

barVars == <<localValue, searchTerm, clock, keystrokes, propagated>>

\* a call of a list utility
VARIABLES
  input,         \* the array the caller holds and passes in
  term,          \* the search term passed in
  given,         \* the array as it was when the call was made
  result         \* what the call returned, and which module's function it was

utilVars == <<input, term, given, result>>

\* sorting, formatting and the controls of the index page
VARIABLES
  criterion,     \* the sortBy argument of a sortArticles call
  dateString,    \* the argument of formatRelativeTime
  currentTime,   \* the clock read by new Date(), in seconds since the epoch
  formatted,     \* what formatRelativeTime returned
  urlArg,        \* the argument of extractDomain
  domain,        \* what extractDomain returned
  sortBy,        \* Index: the selected sort criterion, SortControls' sortBy prop
  disabled,      \* SortControls: the disabled prop
  clicks,        \* the clicks on the sort buttons so far
  sortChanges    \* the calls of onSortChange so far

viewVars == <<criterion, dateString, currentTime, formatted, urlArg, domain,
              sortBy, disabled, clicks, sortChanges>>

\* the state of the other components, which an invocation never touches
otherVars == <<concVars, debVars, barVars, utilVars, viewVars>>

\* what a step of the concurrent invocations leaves alone
exceptConc == <<clientVars, debVars, barVars, utilVars, viewVars>>

\* what a step of the debounced function leaves alone
exceptDeb == <<clientVars, concVars, barVars, utilVars, viewVars>>

\* what a step of the search bar leaves alone
exceptBar == <<clientVars, concVars, debVars, utilVars, viewVars>>

\* what a call of a list utility leaves alone
exceptUtil == <<clientVars, concVars, debVars, barVars, viewVars>>

\* what sorting, formatting and the page controls leave alone
exceptView == <<clientVars, concVars, debVars>>

vars == <<clientVars, otherVars>>

NoRequest == [present |-> FALSE, val |-> <<>>]

\* most loader invocations in flight at once
NumInvocations == 2
Invocations == 1..NumInvocations

\* the locals of an invocation that has not started
IdleInvocation ==
  [pc |-> "idle", request |-> NoRequest, limit |-> NaN, timer |-> "none",
   net |-> "idle", fetchP |-> None, mrResult |-> None, jsonP |-> None,
   faResult |-> None, clientResult |-> None, response |-> None]

\* nothing has happened to an invocation yet
NoEvents == [request |-> NoRequest, fetch |-> None, json |-> None]

ConcIdle ==
  /\ inv = [i \in Invocations |-> IdleInvocation]
  /\ own = [i \in Invocations |-> NoEvents]
  /\ actor = 0

ClientIdle ==
  /\ pc = "idle"
  /\ op = "none"
  /\ request = NoRequest
  /\ limit = NaN
  /\ timer = "none"
  /\ net = "idle"
  /\ fetchP = None
  /\ mrResult = None
  /\ jsonP = None
  /\ faResult = None
  /\ clientResult = None
  /\ response = None
  /\ articleId = 0
  /\ nClientCalls = 0
  /\ nFetch = 0

\* debounce(func, w) has just returned the wrapper, lines 99-100
DebCreated(w) ==
  /\ now = 0
  /\ wait = w
  /\ timeout = 0
  /\ timers = {}
  /\ calls = <<>>
  /\ runs = <<>>
  /\ nextId = 1

DebIdle == DebCreated(0)

\* Index and SearchBar as first rendered: useState(""), useState(value)
BarIdle ==
  /\ localValue = <<>>
  /\ searchTerm = <<>>
  /\ clock = 0
  /\ keystrokes = <<>>
  /\ propagated = <<>>

\* no call made yet
NotCalled == [by |-> "none", ret |-> <<>>]

\* the caller holds the array l and is about to search it for t
UtilInputs(l, t) ==
  /\ input = l
  /\ term = t
  /\ given = l
  /\ result = NotCalled

UtilIdle == UtilInputs(<<>>, <<>>)

\* no sortArticles call made
SortIdle == criterion = "none"

\* no formatRelativeTime call made
NotFormatted == [count |-> <<>>, words |-> ""]

FormatIdle ==
  /\ dateString = ""
  /\ currentTime = 0
  /\ formatted = NotFormatted

\* no extractDomain call made
DomainIdle ==
  /\ urlArg = <<>>
  /\ domain = <<>>

\* Index as first rendered: useState<SortBy>("date"), part_005 line 116
ControlsIdle ==
  /\ sortBy = "date"
  /\ disabled = FALSE
  /\ clicks = <<>>
  /\ sortChanges = <<>>

ViewIdle == SortIdle /\ FormatIdle /\ DomainIdle /\ ControlsIdle

Init == ClientIdle /\ ConcIdle /\ DebIdle /\ BarIdle /\ UtilIdle /\ ViewIdle

(* ------------------------------ the API client -------------------------- *)
Return(fields) == [kind |-> "return"] @@ fields
Throw(e) == [kind |-> "throw", err |-> e]

\* the catch block without the test of error.name: an abort is reported as
\* a network error
makeRequestCatch_NoAbortTest(error) ==
  IF IsApiError(error) THEN error
  ELSE IF IsError(error)
       THEN SpaceflightApiError("Network error: " \o error.message,
                                Status(0), Code("NETWORK_ERROR"))
       ELSE SpaceflightApiError("Unknown error occurred", Status(0), Code("UNKNOWN_ERROR"))

\* makeRequest, the catch block: every thrown value becomes a typed error
makeRequestCatch(error) ==
  IF IsApiError(error) THEN error
  ELSE IF IsError(error)
       THEN IF error.name = "AbortError"
            THEN SpaceflightApiError("Request timeout", Status(408), Code("TIMEOUT"))
            ELSE SpaceflightApiError("Network error: " \o error.message,
                                     Status(0), Code("NETWORK_ERROR"))
       ELSE SpaceflightApiError("Unknown error occurred", Status(0), Code("UNKNOWN_ERROR"))

\* makeRequest from the point where the awaited fetch has settled
makeRequestSettle(p) ==
  IF p.kind = "fulfilled"
  THEN IF ~Ok(p.status)
       THEN Throw(makeRequestCatch(
              SpaceflightApiError("HTTP error! status: " \o ToString(p.status),
                                  Status(p.status), Code(p.statusText))))
       ELSE Return([status |-> p.status])
  ELSE Throw(makeRequestCatch(p.err))

\* the catch block without the wrapping: whatever was thrown is thrown again
fetchCatch_Rethrow(o, id, error) == error

\* the catch block wrapping every error, typed ones included, as FETCH_ERROR
fetchCatch_WrapAll(o, id, error) ==
  IF o = "byId"
  THEN SpaceflightApiError("Failed to fetch article " \o ToString(id),
                           Status(0), Code("FETCH_ERROR"))
  ELSE SpaceflightApiError("Failed to fetch articles", Status(0), Code("FETCH_ERROR"))

\* the catch block of fetchArticles and of fetchArticleById
fetchCatch(o, id, error) ==
  IF IsApiError(error) THEN error
  ELSE IF o = "byId"
       THEN SpaceflightApiError("Failed to fetch article " \o ToString(id),
                                Status(0), Code("FETCH_ERROR"))
       ELSE SpaceflightApiError("Failed to fetch articles", Status(0), Code("FETCH_ERROR"))

\* fetchArticles / fetchArticleById from the point where response.json() settled
fetchAfterJson(o, id, status, p) ==
  IF p.kind = "rejected" THEN Throw(fetchCatch(o, id, p.err))
  ELSE IF o = "byId"
       THEN IF ~validateArticle(p.data)
            THEN Throw(fetchCatch(o, id,
                   SpaceflightApiError("Invalid article format from API",
                                       Status(status), Code("INVALID_ARTICLE"))))
            ELSE Return([data |-> p.data])
       ELSE IF ~validateApiResponse(p.data)
            THEN Throw(fetchCatch(o, id,
                   SpaceflightApiError("Invalid response format from API",
                                       Status(status), Code("INVALID_RESPONSE"))))
            ELSE Return([data |-> p.data])

\* fetchLatestArticles: the results of the response, a failure as it is
fetchLatestArticles(r) ==
  IF r.kind = "return" THEN Return([articles |-> Prop(r.data, "results").items])
  ELSE r

(* ------------------------------- the loader ----------------------------- *)
JBool(b) == [t |-> "boolean", b |-> b]

\* error: string | null of ArticlesLoaderData
NullError == [isNull |-> TRUE, s |-> ""]
Message(s) == [isNull |-> FALSE, s |-> s]

\* JSON.stringify of a number: NaN is written as null
StringifyNumber(x) == IF x.nan THEN JNull ELSE JNum(x.n)

\* JSON.stringify(loaderData), as the JSON value the receiver parses
JSONStringify(d) ==
  JObj([articles |-> JArr(d.articles),
        error |-> IF d.error.isNull THEN JNull ELSE JStr(d.error.s),
        meta |-> JObj([total |-> StringifyNumber(d.meta.total),
                       hasMore |-> JBool(d.meta.hasMore)])])

CacheControlSuccess == "public, max-age=300, stale-while-revalidate=600"
CacheControlError == "no-cache, no-store, must-revalidate"
\* seconds of the retry-after hint
RetryAfterSeconds == 60

\* loaderSuccess with total taken from the limit asked for, not the list
loaderSuccess_TotalIsLimit(articles, lim) ==
  Return([status |-> 200,
          headers |-> ("Content-Type" :> "application/json")
                        @@ ("Cache-Control" :> CacheControlSuccess),
          body |-> JSONStringify(
            [articles |-> articles, error |-> NullError,
             meta |-> [total |-> lim,
                       hasMore |-> (~lim.nan /\ Len(articles) = lim.n)]])])

\* loaderSuccess with hasMore computed by >= instead of ===
loaderSuccess_HasMoreAtLeast(articles, lim) ==
  Return([status |-> 200,
          headers |-> ("Content-Type" :> "application/json")
                        @@ ("Cache-Control" :> CacheControlSuccess),
          body |-> JSONStringify(
            [articles |-> articles, error |-> NullError,
             meta |-> [total |-> Num(Len(articles)),
                       hasMore |-> (~lim.nan /\ Len(articles) >= lim.n)]])])

\* loaderSuccess with hasMore computed by <= instead of ===
loaderSuccess_HasMoreAtMost(articles, lim) ==
  Return([status |-> 200,
          headers |-> ("Content-Type" :> "application/json")
                        @@ ("Cache-Control" :> CacheControlSuccess),
          body |-> JSONStringify(
            [articles |-> articles, error |-> NullError,
             meta |-> [total |-> Num(Len(articles)),
                       hasMore |-> (~lim.nan /\ Len(articles) <= lim.n)]])])

\* the try block of the loader after fetchLatestArticles resolved
loaderSuccess(articles, lim) ==
  LET loaderData ==
        [articles |-> articles,
         error |-> NullError,
         meta |-> [total |-> Num(Len(articles)),
                   hasMore |-> (~lim.nan /\ Len(articles) = lim.n)]]
  IN Return([status |-> 200,
             headers |-> ("Content-Type" :> "application/json")
                           @@ ("Cache-Control" :> CacheControlSuccess),
             body |-> JSONStringify(loaderData)])

\* error.status ?? 500: a status of 0 is kept
StatusOrDefault_KeepZero(st) == IF st.has THEN st.n ELSE 500

\* error.status || 500
StatusOrDefault(st) == IF st.has /\ st.n # 0 THEN st.n ELSE 500

\* errorMessage of the catch block
errorMessageOf(error) ==
  IF IsError(error) THEN error.message ELSE "Failed to load articles"

\* statusCode of the catch block
statusCodeOf(error) ==
  IF IsApiError(error) THEN StatusOrDefault(error.status) ELSE 500

\* retryAfter set for 429 only
retryAfterOf_Only429(error) ==
  IF IsApiError(error) /\ error.status.has /\ error.status.n = 429
  THEN RetryAfterSeconds ELSE 0

\* retryAfter of the catch block, 0 when it stays undefined
retryAfterOf(error) ==
  IF IsApiError(error) /\ error.status.has /\ error.status.n \in {429, 503}
  THEN RetryAfterSeconds ELSE 0

\* the headers of the catch block with the cacheable policy
errorHeaders_Cacheable(retryAfter) ==
  IF retryAfter # 0
  THEN ("Cache-Control" :> CacheControlSuccess)
         @@ ("Retry-After" :> ToString(retryAfter))
  ELSE ("Cache-Control" :> CacheControlSuccess)

\* the headers record of the catch block
errorHeaders(retryAfter) ==
  IF retryAfter # 0
  THEN ("Cache-Control" :> CacheControlError)
         @@ ("Retry-After" :> ToString(retryAfter))
  ELSE ("Cache-Control" :> CacheControlError)

\* status of the fallback Response
responseStatus(statusCode) == IF statusCode >= 500 THEN 500 ELSE 200

\* the catch block of the loader
loaderCatch(error) ==
  LET fallbackData ==
        [articles |-> <<>>,
         error |-> Message(errorMessageOf(error)),
         meta |-> [total |-> Num(0), hasMore |-> FALSE]]
  IN Return([status |-> responseStatus(statusCodeOf(error)),
             headers |-> ("Content-Type" :> "application/json")
                           @@ errorHeaders(retryAfterOf(error)),
             body |-> JSONStringify(fallbackData)])

\* a loader whose catch block rethrows what is not an Error
loaderRespond_Rethrow(r, lim) ==
  IF r.kind = "return" THEN loaderSuccess(r.articles, lim)
  ELSE IF IsError(r.err) THEN loaderCatch(r.err)
  ELSE Throw(r.err)

\* the loader from the point where the awaited client call settled
loaderRespond(r, lim) ==
  IF r.kind = "return" THEN loaderSuccess(r.articles, lim)
  ELSE loaderCatch(r.err)

(* ------------------------------- the actions ---------------------------- *)
\* ids fetchArticleById is called with
ArticleIds == {1, 2}

\* what a replaced fetchLatestArticles (vi.mock) settles with
MockedOutcomes ==
  {Return([articles |-> ArticleList(k)]) : k \in 0..MaxArticles}
    \cup {Throw(SpaceflightApiError("API is down", st, NoCode)) :
            st \in {NoStatus, Status(0), Status(400), Status(408), Status(429),
                    Status(499), Status(500), Status(503)}}
    \cup {Throw(PlainError("Error", "Network failure")), Throw(NonErrorValue)}

\* makeRequest up to its await: the timer is set and the request is sent
makeRequestStart ==
  /\ timer' = "armed"
  /\ net' = "sent"
  /\ fetchP' = [kind |-> "pending"]
  /\ nFetch' = nFetch + 1

\* loader, lines 34-40: resolve the limit, call the client, which calls
\* fetchArticles, which calls makeRequest, which awaits fetch
LoaderStart ==
  /\ pc = "idle"
  /\ \E q \in QueryParams :
       /\ request' = q
       /\ limit' = ResolveLimit(q)
  /\ op' = "loader"
  /\ nClientCalls' = nClientCalls + 1
  /\ makeRequestStart
  /\ pc' = "mr_await_fetch"
  /\ UNCHANGED <<mrResult, jsonP, faResult, clientResult, response, articleId>>
  /\ UNCHANGED otherVars

\* the loader over a replaced client, as its tests run it
LoaderStartMocked ==
  /\ pc = "idle"
  /\ \E q \in QueryParams :
       /\ request' = q
       /\ limit' = ResolveLimit(q)
  /\ op' = "mocked"
  /\ nClientCalls' = nClientCalls + 1
  /\ \E o \in MockedOutcomes : clientResult' = o
  /\ pc' = "ld_resume"
  /\ UNCHANGED <<timer, net, fetchP, mrResult, jsonP, faResult, response,
                 articleId, nFetch>>
  /\ UNCHANGED otherVars

\* fetchArticleById(id) called directly, up to the await of fetch
FetchArticleByIdStart ==
  /\ pc = "idle"
  /\ \E id \in ArticleIds : articleId' = id
  /\ op' = "byId"
  /\ nClientCalls' = nClientCalls + 1
  /\ makeRequestStart
  /\ pc' = "mr_await_fetch"
  /\ UNCHANGED <<request, limit, mrResult, jsonP, faResult, clientResult, response>>
  /\ UNCHANGED otherVars

\* the upstream answers: status line and headers arrive, fetch resolves
UpstreamHeaders ==
  /\ net = "sent"
  /\ fetchP.kind = "pending"
  /\ \E st \in Statuses :
       fetchP' = [kind |-> "fulfilled", status |-> st, statusText |-> StatusText(st)]
  /\ net' = "headers"
  /\ UNCHANGED <<pc, op, request, limit, timer, mrResult, jsonP, faResult,
                 clientResult, response, articleId, nClientCalls, nFetch>>
  /\ UNCHANGED otherVars

\* the transport fails, fetch rejects
UpstreamFail ==
  /\ net = "sent"
  /\ fetchP.kind = "pending"
  /\ \E e \in TransportFailures : fetchP' = [kind |-> "rejected", err |-> e]
  /\ net' = "failed"
  /\ UNCHANGED <<pc, op, request, limit, timer, mrResult, jsonP, faResult,
                 clientResult, response, articleId, nClientCalls, nFetch>>
  /\ UNCHANGED otherVars

\* the timer callback: controller.abort() rejects the pending fetch.  A
\* settled fetch resumes makeRequest (a microtask) before any timer runs; a
\* timer still set when makeRequest is over runs later, and its abort finds
\* the fetch settled.
TimerFire ==
  /\ timer = "armed"
  /\ timer' = "fired"
  /\ IF fetchP.kind = "pending"
     THEN /\ net' = "aborted"
          /\ fetchP' = [kind |-> "rejected", err |-> AbortError]
     ELSE /\ mrResult.kind \in {"return", "throw"}
          /\ UNCHANGED <<net, fetchP>>
  /\ UNCHANGED <<pc, op, request, limit, mrResult, jsonP, faResult,
                 clientResult, response, articleId, nClientCalls, nFetch>>
  /\ UNCHANGED otherVars

\* a clearTimeout that leaves the timer set
clearTimeout_Late(t) == t

\* clearTimeout(timeoutId), lines 83 and 95
clearTimeout(t) == IF t = "armed" THEN "cleared" ELSE t

\* makeRequest resumes after the await of fetch, lines 83-113
MakeRequestResume ==
  /\ pc = "mr_await_fetch"
  /\ fetchP.kind \in {"fulfilled", "rejected"}
  /\ timer' = clearTimeout(timer)
  /\ mrResult' = makeRequestSettle(fetchP)
  /\ pc' = "fa_resume"
  /\ UNCHANGED <<op, request, limit, net, fetchP, jsonP, faResult, clientResult,
                 response, articleId, nClientCalls, nFetch>>
  /\ UNCHANGED otherVars

\* a client that sends the request once more when makeRequest failed
FetchResume_RetryOnce ==
  /\ pc = "fa_resume"
  /\ IF mrResult.kind = "throw" /\ nFetch < 2
     THEN /\ makeRequestStart
          /\ mrResult' = None
          /\ pc' = "mr_await_fetch"
          /\ UNCHANGED <<faResult, jsonP>>
     ELSE /\ IF mrResult.kind = "throw"
             THEN /\ faResult' = Throw(fetchCatch(op, articleId, mrResult.err))
                  /\ pc' = "fa_settled"
                  /\ UNCHANGED jsonP
             ELSE /\ jsonP' = [kind |-> "pending"]
                  /\ pc' = "fa_await_json"
                  /\ UNCHANGED faResult
          /\ UNCHANGED <<timer, net, fetchP, mrResult, nFetch>>
  /\ UNCHANGED <<op, request, limit, clientResult, response, articleId, nClientCalls>>
  /\ UNCHANGED otherVars

\* fetchArticles / fetchArticleById resumes after the await of makeRequest:
\* it starts reading the body, or its catch block passes the error on
FetchResume ==
  /\ pc = "fa_resume"
  /\ IF mrResult.kind = "throw"
     THEN /\ faResult' = Throw(fetchCatch(op, articleId, mrResult.err))
          /\ pc' = "fa_settled"
          /\ UNCHANGED jsonP
     ELSE /\ jsonP' = [kind |-> "pending"]
          /\ pc' = "fa_await_json"
          /\ UNCHANGED faResult
  /\ UNCHANGED <<op, request, limit, timer, net, fetchP, mrResult, clientResult,
                 response, articleId, nClientCalls, nFetch>>
  /\ UNCHANGED otherVars

\* the body arrives and response.json() settles: parsed data, a SyntaxError
\* for a body that is not JSON, or a TypeError when the stream breaks
UpstreamBody ==
  /\ pc = "fa_await_json"
  /\ net = "headers"
  /\ jsonP.kind = "pending"
  /\ \/ \E d \in Bodies : jsonP' = [kind |-> "fulfilled", data |-> d]
     \/ \E e \in {PlainError("SyntaxError", "Unexpected token"),
                  PlainError("TypeError", "terminated")} :
          jsonP' = [kind |-> "rejected", err |-> e]
  /\ net' = "complete"
  /\ UNCHANGED <<pc, op, request, limit, timer, fetchP, mrResult, faResult,
                 clientResult, response, articleId, nClientCalls, nFetch>>
  /\ UNCHANGED otherVars

\* fetchArticles / fetchArticleById resumes after the await of response.json()
FetchAfterJson ==
  /\ pc = "fa_await_json"
  /\ jsonP.kind \in {"fulfilled", "rejected"}
  /\ faResult' = fetchAfterJson(op, articleId, mrResult.status, jsonP)
  /\ pc' = "fa_settled"
  /\ UNCHANGED <<op, request, limit, timer, net, fetchP, mrResult, jsonP,
                 clientResult, response, articleId, nClientCalls, nFetch>>
  /\ UNCHANGED otherVars

\* fetchLatestArticles resumes after the await of fetchArticles
FetchLatestArticlesResume ==
  /\ pc = "fa_settled"
  /\ op = "loader"
  /\ clientResult' = fetchLatestArticles(faResult)
  /\ pc' = "ld_resume"
  /\ UNCHANGED <<op, request, limit, timer, net, fetchP, mrResult, jsonP,
                 faResult, response, articleId, nClientCalls, nFetch>>
  /\ UNCHANGED otherVars

\* the caller of fetchArticleById receives its result
FetchArticleByIdSettle ==
  /\ pc = "fa_settled"
  /\ op = "byId"
  /\ clientResult' = faResult
  /\ pc' = "done"
  /\ UNCHANGED <<op, request, limit, timer, net, fetchP, mrResult, jsonP,
                 faResult, response, articleId, nClientCalls, nFetch>>
  /\ UNCHANGED otherVars

\* the loader resumes after the await of fetchLatestArticles, lines 40-105
LoaderResume ==
  /\ pc = "ld_resume"
  /\ response' = loaderRespond(clientResult, limit)
  /\ pc' = "done"
  /\ UNCHANGED <<op, request, limit, timer, net, fetchP, mrResult, jsonP,
                 faResult, clientResult, articleId, nClientCalls, nFetch>>
  /\ UNCHANGED otherVars

\* the invocation is over and its objects are dropped; the next one starts fresh
NextInvocation ==
  /\ pc = "done"
  /\ pc' = "idle"
  /\ op' = "none"
  /\ request' = NoRequest
  /\ limit' = NaN
  /\ timer' = "none"
  /\ net' = "idle"
  /\ fetchP' = None
  /\ mrResult' = None
  /\ jsonP' = None
  /\ faResult' = None
  /\ clientResult' = None
  /\ response' = None
  /\ articleId' = 0
  /\ nClientCalls' = 0
  /\ nFetch' = 0
  /\ UNCHANGED otherVars

Next ==
  \/ LoaderStart
  \/ LoaderStartMocked
  \/ FetchArticleByIdStart
  \/ UpstreamHeaders
  \/ UpstreamFail
  \/ TimerFire
  \/ MakeRequestResume
  \/ FetchResume
  \/ UpstreamBody
  \/ FetchAfterJson
  \/ FetchLatestArticlesResume
  \/ FetchArticleByIdSettle
  \/ LoaderResume
  \/ NextInvocation

Spec == Init /\ [][Next]_vars

(* ------------------------- the loader's envelope ------------------------ *)
\* the loader has returned
LoaderDone == pc = "done" /\ op \in {"loader", "mocked"}
\* the client call of the loader failed / succeeded
LoadFailed == clientResult.kind = "throw"
LoadSucceeded == clientResult.kind = "return"

\* the envelope as the receiver parses it from the body
EnvArticles == Prop(response.body, "articles")
EnvError == Prop(response.body, "error")
EnvMeta == Prop(response.body, "meta")
EnvTotal == Prop(EnvMeta, "total")
EnvHasMore == Prop(EnvMeta, "hasMore")

\* C1: every envelope the loader returns is well formed: on failure
\* articles is empty and error is a message, on success error is null,
\* articles and error are never both populated, and meta.total is the
\* length of articles.
C1_EnvelopeWellFormed ==
  LoaderDone =>
    /\ response.kind = "return"
    /\ LoadFailed => (EnvArticles = JArr(<<>>) /\ EnvError.t = "string")
    /\ LoadSucceeded => (EnvError = JNull /\ EnvArticles = JArr(clientResult.articles))
    /\ ~(EnvArticles.items # <<>> /\ EnvError # JNull)
    /\ EnvTotal = JNum(Len(EnvArticles.items))

\* C1 witness: the loader has answered a successful load of several articles
C1_Witness ==
  /\ LoaderDone /\ op = "loader" /\ LoadSucceeded
  /\ Len(clientResult.articles) > 1
  /\ EnvTotal = JNum(Len(clientResult.articles))

\* C2: whatever the client call settles with (a list, a SpaceflightApiError,
\* a plain Error, a value that is not an Error) the loader returns a Response
\* whose body parses to an envelope {articles, error, meta}; it never rejects.
C2_LoaderNeverRejects ==
  LoaderDone =>
    /\ response.kind = "return"
    /\ response.body.t = "object"
    /\ EnvArticles.t = "array"
    /\ EnvError.t \in {"null", "string"}
    /\ EnvMeta.t = "object"
    /\ EnvTotal.t = "number"
    /\ EnvHasMore.t = "boolean"

\* C2 witness: the loader has answered a client call that rejected with a
\* value that is not an Error
C2_Witness ==
  /\ LoaderDone /\ LoadFailed /\ ~IsError(clientResult.err)
  /\ response.kind = "return"

(* --------------------------- the resolved limit ------------------------- *)
\* the limit parameter is absent, or no number can be read from it
Unparseable(q) == ~q.present \/ parseInt(q.val).nan

\* C3: the limit passed to the client is 20 when the parameter is absent or
\* unparseable, otherwise the requested number clamped to at most 50; it is
\* always a number not greater than 50.
C3_LimitResolved ==
  (pc # "idle" /\ op \in {"loader", "mocked"}) =>
    /\ ~limit.nan
    /\ limit.n <= LimitCap
    /\ limit = IF Unparseable(request) THEN Num(20)
               ELSE MathMin(parseInt(request.val), Num(LimitCap))

(* ---------------------- status, headers and metadata -------------------- *)
\* the failure carries no usable status: it is not a typed error, or its
\* status is undefined or 0
StatusUnspecified(e) == ~IsApiError(e) \/ ~e.status.has \/ e.status.n = 0

\* C4: the HTTP status is 200 or 500; it is 500 exactly when the load failed
\* and the failure's status is >= 500 or unspecified; on success and for a
\* failure with a status below 500 it is 200, with error populated on failure.
C4_StatusIs200Or500 ==
  LoaderDone =>
    /\ response.status \in {200, 500}
    /\ response.status = 500 <=>
         (LoadFailed /\ (StatusUnspecified(clientResult.err)
                           \/ clientResult.err.status.n >= 500))
    /\ (LoadFailed /\ response.status = 200) => EnvError.t = "string"

\* C4 witness: a network failure (status 0) has been answered with 500
C4_Witness ==
  /\ LoaderDone /\ LoadFailed /\ IsApiError(clientResult.err)
  /\ clientResult.err.status = Status(0)
  /\ response.status = 500

HasHeader(name) == name \in DOMAIN response.headers

\* C5: the response carries Retry-After: 60 if and only if the load failed
\* with a SpaceflightApiError whose status is 429 or 503.
C5_RetryAfter ==
  LoaderDone =>
    /\ HasHeader("Retry-After") <=>
         (LoadFailed /\ IsApiError(clientResult.err)
            /\ clientResult.err.status \in {Status(429), Status(503)})
    /\ HasHeader("Retry-After") => response.headers["Retry-After"] = "60"

\* C5 witness: an upstream 503 has been answered with Retry-After: 60
C5_Witness ==
  /\ LoaderDone /\ op = "loader" /\ LoadFailed
  /\ clientResult.err.status = Status(503)
  /\ HasHeader("Retry-After")

\* C6: a response whose envelope has an error carries the no-store policy,
\* and the cacheable policy is attached only to responses whose error is null.
C6_ErrorsNeverCached ==
  LoaderDone =>
    /\ EnvError # JNull => response.headers["Cache-Control"] = CacheControlError
    /\ response.headers["Cache-Control"] = CacheControlSuccess => EnvError = JNull

\* C6 witness: a failed load has been answered with the no-store policy
C6_Witness ==
  /\ LoaderDone /\ LoadFailed /\ EnvError.t = "string"
  /\ response.headers["Cache-Control"] = CacheControlError

\* C7: on a successful load meta.hasMore is true exactly when the number of
\* articles equals the resolved limit; on failure it is false.
C7_HasMore ==
  LoaderDone =>
    /\ LoadSucceeded =>
         (EnvHasMore = JBool(~limit.nan /\ Len(clientResult.articles) = limit.n))
    /\ LoadFailed => EnvHasMore = JBool(FALSE)

\* C7 witness: a load that returned as many articles as the limit asked for
C7_Witness ==
  /\ LoaderDone /\ LoadSucceeded
  /\ Len(clientResult.articles) = limit.n /\ Len(clientResult.articles) > 0
  /\ EnvHasMore = JBool(TRUE)

\* the upstream call of the loader succeeded with an empty list
EmptySuccess == LoaderDone /\ LoadSucceeded /\ clientResult.articles = <<>>

\* C8 as stated: for any limit parameter, an empty successful load gives
\* articles = [], error = null, total = 0 and hasMore = false.
C8_EmptyResultAnyLimit ==
  EmptySuccess =>
    /\ EnvArticles = JArr(<<>>)
    /\ EnvError = JNull
    /\ EnvTotal = JNum(0)
    /\ EnvHasMore = JBool(FALSE)

\* C8 amended: an empty successful load gives articles = [], error = null,
\* total = 0, and hasMore = false unless the resolved limit is 0 (then the
\* count equals the limit and hasMore is true).
C8_EmptyResult ==
  EmptySuccess =>
    /\ EnvArticles = JArr(<<>>)
    /\ EnvError = JNull
    /\ EnvTotal = JNum(0)
    /\ EnvHasMore = JBool(limit = Num(0))

\* C8 witness: an empty successful load under the default limit
C8_Witness ==
  /\ EmptySuccess /\ op = "loader" /\ ~request.present
  /\ EnvHasMore = JBool(FALSE)

(* --------------------------- the timeout race --------------------------- *)
\* the typed error of a timeout
TimeoutError == SpaceflightApiError("Request timeout", Status(408), Code("TIMEOUT"))

\* makeRequest / the client operation has settled
MakeRequestSettled == mrResult.kind \in {"return", "throw"}
ClientOpSettled == faResult.kind \in {"return", "throw"}

\* the timer fired before a response arrived: the request is aborted, the
\* call fails with the timeout error and no response is ever delivered
TimeoutWins ==
  timer = "fired" =>
    /\ net = "aborted"
    /\ fetchP = [kind |-> "rejected", err |-> AbortError]
    /\ MakeRequestSettled => mrResult = Throw(TimeoutError)
    /\ ClientOpSettled => faResult = Throw(TimeoutError)
    /\ jsonP = None

\* a response was delivered: the timer never fired and no error is reported
\* for makeRequest
ResponseWins ==
  (MakeRequestSettled /\ mrResult.kind = "return") =>
    /\ timer = "cleared"
    /\ fetchP.kind = "fulfilled"
    /\ net \in {"headers", "complete"}

\* an outcome, once reported, stays until the invocation is over
OutcomeIsFinal ==
  /\ MakeRequestSettled => (mrResult' = mrResult \/ pc' = "idle")
  /\ ClientOpSettled => (faResult' = faResult \/ pc' = "idle")
  /\ fetchP.kind \in {"fulfilled", "rejected"} => (fetchP' = fetchP \/ pc' = "idle")
  /\ timer = "fired" => (timer' = "fired" \/ pc' = "idle")

\* C9: if the timer fires before a response arrives the request is aborted
\* and the call fails with status 408 and code TIMEOUT; a call ends in
\* exactly one outcome, never a response after a timeout was reported.
C9_TimeoutRace == [](TimeoutWins /\ ResponseWins) /\ [][OutcomeIsFinal]_vars

\* C9 witness: the timer fired and the client operation rejected with the
\* timeout error
C9_Witness ==
  /\ timer = "fired" /\ pc = "done"
  /\ clientResult = Throw(TimeoutError)

(* ------------------------------ termination ----------------------------- *)
\* the event loop runs every continuation that is ready, and a timer that
\* stays armed fires; the upstream owes nothing
Fairness ==
  /\ WF_vars(TimerFire)
  /\ WF_vars(MakeRequestResume)
  /\ WF_vars(FetchResume)
  /\ WF_vars(FetchAfterJson)
  /\ WF_vars(FetchLatestArticlesResume)
  /\ WF_vars(FetchArticleByIdSettle)
  /\ WF_vars(LoaderResume)

LiveSpec == Init /\ [][Next]_vars /\ Fairness

\* makeRequest always settles: the timer bounds the wait for the headers
MakeRequestTerminates == (pc = "mr_await_fetch") ~> MakeRequestSettled

\* C10: a call of fetchArticles or fetchArticleById never blocks for ever:
\* whatever the upstream does, the call completes with data or a typed error.
C10_CallCompletes == (pc = "mr_await_fetch") ~> ClientOpSettled

(* ------------------------- the client's typed errors -------------------- *)
\* the seven fields of an Article, each with its primitive type
ArticleFields ==
  [id |-> "number", title |-> "string", summary |-> "string",
   image_url |-> "string", news_site |-> "string", published_at |-> "string",
   url |-> "string"]

\* v is an object that has all seven Article fields with the right types
ArticleShaped(v) ==
  /\ v.t = "object"
  /\ \A f \in DOMAIN ArticleFields :
       f \in DOMAIN v.fields /\ v.fields[f].t = ArticleFields[f]

\* v is a string or null
StringOrNull(v) == v.t \in {"string", "null"}

\* v is a list response: count a number, next and previous a string or
\* null, results an array of articles
ResponseShaped(v) ==
  /\ v.t = "object"
  /\ {"count", "next", "previous", "results"} \subseteq DOMAIN v.fields
  /\ v.fields["count"].t = "number"
  /\ StringOrNull(v.fields["next"])
  /\ StringOrNull(v.fields["previous"])
  /\ v.fields["results"].t = "array"
  /\ \A i \in 1..Len(v.fields["results"].items) :
       ArticleShaped(v.fields["results"].items[i])

\* the shape the operation in progress validates against
Validated(v) == IF op = "byId" THEN ArticleShaped(v) ELSE ResponseShaped(v)

\* C11: every failure path of fetchArticles / fetchArticleById rejects with
\* a SpaceflightApiError, never with a raw exception, and the call never
\* resolves with data that was not validated.
C11_OnlyTypedErrors ==
  /\ ClientOpSettled =>
       /\ faResult.kind = "throw" => IsApiError(faResult.err)
       /\ faResult.kind = "return" => Validated(faResult.data)
  /\ (op \in {"loader", "byId"} /\ clientResult.kind = "throw") =>
       IsApiError(clientResult.err)

\* C11 witness: a body that is not JSON made response.json() reject with a
\* SyntaxError and the call rejected with the typed FETCH_ERROR
C11_Witness ==
  /\ ClientOpSettled /\ jsonP.kind = "rejected"
  /\ jsonP.err.name = "SyntaxError"
  /\ faResult.kind = "throw" /\ faResult.err.code = Code("FETCH_ERROR")

\* the typed error of a response that is not ok
HttpError(status, statusText) ==
  SpaceflightApiError("HTTP error! status: " \o ToString(status),
                      Status(status), Code(statusText))

\* the typed error of a transport failure
NetworkError(e) ==
  SpaceflightApiError("Network error: " \o e.message, Status(0), Code("NETWORK_ERROR"))

\* the transport outcome was a response with a status outside 200..299
NotOkResponse == fetchP.kind = "fulfilled" /\ ~(fetchP.status \in 200..299)

\* the transport failed with an Error that is not the abort
TransportFailed ==
  fetchP.kind = "rejected" /\ IsError(fetchP.err) /\ fetchP.err.name # "AbortError"

\* C12: a response with a non-2xx status yields an error with the upstream
\* status and the upstream status text as code; a transport failure that is
\* not the abort yields status 0 and code NETWORK_ERROR wrapping the message;
\* both reach the caller of fetchArticles unchanged, not as FETCH_ERROR.
C12_ErrorFromTransport ==
  /\ (ClientOpSettled /\ NotOkResponse) =>
       faResult = Throw(HttpError(fetchP.status, fetchP.statusText))
  /\ (ClientOpSettled /\ TransportFailed) =>
       faResult = Throw(NetworkError(fetchP.err))
  /\ (op = "loader" /\ clientResult # None /\ (NotOkResponse \/ TransportFailed)) =>
       /\ clientResult = faResult
       /\ clientResult.err.code # Code("FETCH_ERROR")

\* C12 witness: the caller of fetchArticles holds the error of an upstream 404
C12_Witness ==
  /\ op = "loader" /\ NotOkResponse /\ fetchP.status = 404
  /\ clientResult = Throw(HttpError(404, "Not Found"))

\* the code of the error a shape mismatch is reported with
InvalidCode == IF op = "byId" THEN Code("INVALID_ARTICLE") ELSE Code("INVALID_RESPONSE")

\* the body was parsed and the operation has settled
ParsedAndSettled == ClientOpSettled /\ jsonP.kind = "fulfilled"

\* C13: fetchArticles resolves only with a body of the expected shape (count
\* a number, next and previous a string or null, results an array whose
\* elements have all seven Article fields with the right types); any other
\* parsed body yields INVALID_RESPONSE (INVALID_ARTICLE for fetchArticleById),
\* so no malformed article reaches the loader's envelope.
C13_ShapeValidated ==
  /\ (ParsedAndSettled /\ Validated(jsonP.data)) =>
       faResult = Return([data |-> jsonP.data])
  /\ (ParsedAndSettled /\ ~Validated(jsonP.data)) =>
       /\ faResult.kind = "throw"
       /\ IsApiError(faResult.err)
       /\ faResult.err.code = InvalidCode
  /\ (LoaderDone /\ op = "loader") =>
       \A i \in 1..Len(EnvArticles.items) : ArticleShaped(EnvArticles.items[i])

\* C13 witness: a list whose only article has an id of the wrong type was
\* rejected as INVALID_RESPONSE
C13_Witness ==
  /\ ParsedAndSettled /\ op = "loader"
  /\ jsonP.data = ListBody(<<MistypedArticle>>)
  /\ faResult.kind = "throw" /\ faResult.err.code = Code("INVALID_RESPONSE")

ConcParams == {NoRequest, [present |-> TRUE, val |-> <<"2">>]}
ConcStatuses == {200, 503}
ConcBodies == {ListBody(ArticleList(2)), JObj([invalid |-> JStr("response")])}
ConcFailure == PlainError("TypeError", "fetch failed")
ConcSyntaxError == PlainError("SyntaxError", "Unexpected token")

\* invocation i takes a step that leaves its locals as l and its events as e
StepOf(i, l, e) ==
  /\ inv' = [inv EXCEPT ![i] = l]
  /\ own' = [own EXCEPT ![i] = e]
  /\ actor' = i
  /\ UNCHANGED exceptConc

\* loader, lines 34-40, down to the await of fetch in makeRequest
CLoaderStart(i) ==
  /\ inv[i].pc = "idle"
  /\ \E q \in ConcParams :
       StepOf(i, [IdleInvocation EXCEPT !.pc = "mr_await_fetch", !.request = q,
                                        !.limit = ResolveLimit(q), !.timer = "armed",
                                        !.net = "sent", !.fetchP = [kind |-> "pending"]],
                 [NoEvents EXCEPT !.request = q])

\* the upstream of invocation i answers
CUpstreamHeaders(i) ==
  /\ inv[i].net = "sent"
  /\ inv[i].fetchP.kind = "pending"
  /\ \E st \in ConcStatuses :
       LET p == [kind |-> "fulfilled", status |-> st, statusText |-> StatusText(st)]
       IN StepOf(i, [inv[i] EXCEPT !.net = "headers", !.fetchP = p],
                 [own[i] EXCEPT !.fetch = p])

\* the transport of invocation i fails
CUpstreamFail(i) ==
  /\ inv[i].net = "sent"
  /\ inv[i].fetchP.kind = "pending"
  /\ LET p == [kind |-> "rejected", err |-> ConcFailure]
     IN StepOf(i, [inv[i] EXCEPT !.net = "failed", !.fetchP = p],
               [own[i] EXCEPT !.fetch = p])

\* a controller kept at module level: the timer of invocation i aborts
\* every fetch that is pending, not only its own
CTimerFire_SharedController(i) ==
  /\ inv[i].timer = "armed"
  /\ inv[i].fetchP.kind = "pending"
  /\ LET p == [kind |-> "rejected", err |-> AbortError]
     IN /\ inv' = [j \in Invocations |->
                     IF j = i
                     THEN [inv[j] EXCEPT !.timer = "fired", !.net = "aborted", !.fetchP = p]
                     ELSE IF inv[j].fetchP.kind = "pending"
                          THEN [inv[j] EXCEPT !.net = "aborted", !.fetchP = p]
                          ELSE inv[j]]
        /\ own' = [own EXCEPT ![i] = [own[i] EXCEPT !.fetch = p]]
  /\ actor' = i
  /\ UNCHANGED exceptConc

\* the timer of invocation i fires and its controller aborts its fetch
CTimerFire(i) ==
  /\ inv[i].timer = "armed"
  /\ inv[i].fetchP.kind = "pending"
  /\ LET p == [kind |-> "rejected", err |-> AbortError]
     IN StepOf(i, [inv[i] EXCEPT !.timer = "fired", !.net = "aborted", !.fetchP = p],
               [own[i] EXCEPT !.fetch = p])

\* makeRequest of invocation i resumes
CMakeRequestResume(i) ==
  /\ inv[i].pc = "mr_await_fetch"
  /\ inv[i].fetchP.kind \in {"fulfilled", "rejected"}
  /\ StepOf(i, [inv[i] EXCEPT !.timer = clearTimeout(@),
                              !.mrResult = makeRequestSettle(inv[i].fetchP),
                              !.pc = "fa_resume"],
            own[i])

\* fetchArticles of invocation i resumes after makeRequest
CFetchResume(i) ==
  /\ inv[i].pc = "fa_resume"
  /\ StepOf(i, IF inv[i].mrResult.kind = "throw"
               THEN [inv[i] EXCEPT
                       !.faResult = Throw(fetchCatch("loader", 0, inv[i].mrResult.err)),
                       !.pc = "fa_settled"]
               ELSE [inv[i] EXCEPT !.jsonP = [kind |-> "pending"],
                                   !.pc = "fa_await_json"],
            own[i])

\* the body of invocation i arrives and its response.json() settles
CUpstreamBody(i) ==
  /\ inv[i].pc = "fa_await_json"
  /\ inv[i].net = "headers"
  /\ inv[i].jsonP.kind = "pending"
  /\ \E p \in {[kind |-> "fulfilled", data |-> d] : d \in ConcBodies}
                \cup {[kind |-> "rejected", err |-> ConcSyntaxError]} :
       StepOf(i, [inv[i] EXCEPT !.net = "complete", !.jsonP = p],
              [own[i] EXCEPT !.json = p])

\* fetchArticles of invocation i resumes after response.json()
CFetchAfterJson(i) ==
  /\ inv[i].pc = "fa_await_json"
  /\ inv[i].jsonP.kind \in {"fulfilled", "rejected"}
  /\ StepOf(i, [inv[i] EXCEPT
                  !.faResult = fetchAfterJson("loader", 0, inv[i].mrResult.status,
                                              inv[i].jsonP),
                  !.pc = "fa_settled"],
            own[i])

\* fetchLatestArticles of invocation i resumes
CFetchLatestArticlesResume(i) ==
  /\ inv[i].pc = "fa_settled"
  /\ StepOf(i, [inv[i] EXCEPT !.clientResult = fetchLatestArticles(inv[i].faResult),
                              !.pc = "ld_resume"],
            own[i])

\* the loader of invocation i resumes and returns its Response
CLoaderResume(i) ==
  /\ inv[i].pc = "ld_resume"
  /\ StepOf(i, [inv[i] EXCEPT
                  !.response = loaderRespond(inv[i].clientResult, inv[i].limit),
                  !.pc = "done"],
            own[i])

\* invocation i is over; another request may take its place
CNextInvocation(i) ==
  /\ inv[i].pc = "done"
  /\ StepOf(i, IdleInvocation, NoEvents)

ConcNext ==
  \E i \in Invocations :
    \/ CLoaderStart(i)
    \/ CUpstreamHeaders(i)
    \/ CUpstreamFail(i)
    \/ CTimerFire(i)
    \/ CMakeRequestResume(i)
    \/ CFetchResume(i)
    \/ CUpstreamBody(i)
    \/ CFetchAfterJson(i)
    \/ CFetchLatestArticlesResume(i)
    \/ CLoaderResume(i)
    \/ CNextInvocation(i)

ConcSpec == Init /\ [][ConcNext]_vars

\* the Response of a loader that runs alone on the request and the upstream
\* events e
IsolatedResponse(e) ==
  LET mr == makeRequestSettle(e.fetch)
      fa == IF mr.kind = "throw" THEN Throw(fetchCatch("loader", 0, mr.err))
            ELSE fetchAfterJson("loader", 0, mr.status, e.json)
  IN loaderRespond(fetchLatestArticles(fa), ResolveLimit(e.request))

\* what an invocation returned is what it would have returned alone
OwnInputsDecide ==
  \A i \in Invocations :
    inv[i].pc = "done" => inv[i].response = IsolatedResponse(own[i])

\* a step of one invocation leaves the locals of every other as they were
OthersUntouched ==
  \A j \in Invocations : j # actor' => inv'[j] = inv[j]

\* C15: under any interleaving of concurrent invocations the envelope,
\* status and headers of each depend only on its own request and its own
\* upstream outcome; no invocation writes state another one reads.
C15_Independent == []OwnInputsDecide /\ [][OthersUntouched]_vars

\* C15 witness: two invocations were in flight together, one timed out and
\* the other returned a full page
C15_Witness ==
  /\ inv[1].pc = "done" /\ inv[2].pc = "done"
  /\ inv[1].timer = "fired" /\ inv[1].response.status = 200
  /\ Prop(inv[1].response.body, "error") = JStr("Request timeout")
  /\ inv[2].timer = "cleared" /\ inv[2].response.status = 200
  /\ Prop(Prop(inv[2].response.body, "meta"), "hasMore") = JBool(TRUE)

(* ------------------------------- debounce ------------------------------- *)
\* most calls made to one debounced function
MaxCalls == 3
\* the last millisecond of the clock
MaxTime == 3
\* the longest wait a debounced function is created with
MaxWait == 2

Waits == 0..MaxWait
\* the arguments of a call
ArgValues == {"first", "second"}

\* a timer set at time t by call number k with arguments a
Timer(id, t, k, a) == [id |-> id, due |-> t, call |-> k, args |-> a]

\* the wrapper without clearTimeout: every call leaves its timer set
DebouncedCall_NoClear(a) ==
  /\ Len(calls) < MaxCalls
  /\ now + wait <= MaxTime
  /\ timers' = timers \cup {Timer(nextId, now + wait, Len(calls) + 1, a)}
  /\ timeout' = nextId
  /\ nextId' = nextId + 1
  /\ calls' = Append(calls, [args |-> a, at |-> now])
  /\ UNCHANGED <<now, wait, runs>>
  /\ UNCHANGED exceptDeb

\* the wrapper setting its timer without the wait
DebouncedCall_NoWait(a) ==
  /\ Len(calls) < MaxCalls
  /\ now + wait <= MaxTime
  /\ timers' = {t \in timers : t.id # timeout}
                 \cup {Timer(nextId, now, Len(calls) + 1, a)}
  /\ timeout' = nextId
  /\ nextId' = nextId + 1
  /\ calls' = Append(calls, [args |-> a, at |-> now])
  /\ UNCHANGED <<now, wait, runs>>
  /\ UNCHANGED exceptDeb

\* the wrapper, lines 100-103: clearTimeout(timeout) takes the timer with
\* that id out of the runtime (nothing when timeout is undefined or the
\* timer has run), setTimeout sets a new one wait milliseconds from now
DebouncedCall(a) ==
  /\ Len(calls) < MaxCalls
  /\ now + wait <= MaxTime
  /\ timers' = {t \in timers : t.id # timeout}
                 \cup {Timer(nextId, now + wait, Len(calls) + 1, a)}
  /\ timeout' = nextId
  /\ nextId' = nextId + 1
  /\ calls' = Append(calls, [args |-> a, at |-> now])
  /\ UNCHANGED <<now, wait, runs>>
  /\ UNCHANGED exceptDeb

\* the runtime runs a timer that is due, line 102: () => func(...args);
\* a timer never runs before it is due and may run late
TimerRun ==
  \E t \in timers :
    /\ t.due <= now
    /\ timers' = timers \ {t}
    /\ runs' = Append(runs, [args |-> t.args, at |-> now, call |-> t.call,
                             latest |-> Len(calls)])
    /\ UNCHANGED <<now, wait, timeout, calls, nextId>>
    /\ UNCHANGED exceptDeb

\* a millisecond passes
Tick ==
  /\ now < MaxTime
  /\ now' = now + 1
  /\ UNCHANGED <<wait, timeout, timers, calls, runs, nextId>>
  /\ UNCHANGED exceptDeb

DebInit ==
  ClientIdle /\ ConcIdle /\ BarIdle /\ UtilIdle /\ ViewIdle /\ \E w \in Waits : DebCreated(w)

DebNext ==
  \/ \E a \in ArgValues : DebouncedCall(a)
  \/ TimerRun
  \/ Tick

DebSpec == DebInit /\ [][DebNext]_vars

\* the clock runs and a due timer is run
DebFairness == WF_vars(Tick) /\ WF_vars(TimerRun)

DebLiveSpec == DebSpec /\ DebFairness

\* ---- C16 ----
\* the executions the timer of call k led to
RunsOf(k) == {j \in 1..Len(runs) : runs[j].call = k}

\* call k was followed by another call less than wait later
Superseded(k) ==
  /\ k < Len(calls)
  /\ calls[k + 1].at - calls[k].at < wait

\* C16: a call followed by another call less than wait later never executes
\* the wrapped function; the wrapped function only runs with the arguments
\* of the most recent call; at most one execution is pending at any time.
C16_LastCallWins ==
  /\ \A k \in 1..Len(calls) : Superseded(k) => RunsOf(k) = {}
  /\ \A j \in 1..Len(runs) :
       /\ runs[j].call = runs[j].latest
       /\ runs[j].args = calls[runs[j].latest].args
  /\ Cardinality(timers) <= 1

\* C16 witness: three calls with different arguments in quick succession,
\* and the one execution there was ran for the third
C16_Witness ==
  /\ wait = 2
  /\ Len(calls) = 3
  /\ calls[1].args # calls[2].args /\ calls[2].args # calls[3].args
  /\ Superseded(1) /\ Superseded(2)
  /\ Len(runs) = 1 /\ runs[1].call = 3

\* ---- C17 ----
\* no execution comes sooner than wait after the most recent call
NotEarly ==
  \A j \in 1..Len(runs) : runs[j].at >= calls[runs[j].latest].at + wait

\* no call is executed twice
AtMostOnce == \A k \in 1..Len(calls) : Cardinality(RunsOf(k)) <= 1

\* call k is the last of a burst that has been executed once
BurstExecuted(k) ==
  /\ Cardinality(RunsOf(k)) = 1
  /\ \A j \in 1..Len(runs) : runs[j].call <= k

\* C17: the wrapped function never runs earlier than wait after the most
\* recent call to the wrapper, and once the calls stop it is eventually
\* executed exactly once for the burst.
C17_ResetThenRun ==
  /\ [](NotEarly /\ AtMostOnce)
  /\ \A k \in 1..MaxCalls :
       (Len(calls) = k) ~> (Len(calls) > k \/ BurstExecuted(k))

\* C17 witness: a second call 1 ms after the first reset the timer, and
\* the one execution came wait after the second call
C17_Witness ==
  /\ wait = 2
  /\ Len(calls) = 2
  /\ calls[1].at = 0 /\ calls[2].at = 1
  /\ Len(runs) = 1 /\ runs[1].call = 2 /\ runs[1].at = 3

(* ------------------------------ search bar ------------------------------ *)
\* most change events of the input
MaxKeystrokes == 3
\* the last millisecond of the search bar's clock
MaxClock == 2

\* the keys the user types
Keys == {"a", "b"}

\* the parent's onChange, handleSearchChange: setSearchTerm(value); the
\* re-render passes the term back as the value prop and the effect of
\* lines 22-24 sets localValue to it
onChange(v, cause) ==
  /\ searchTerm' = v
  /\ localValue' = v
  /\ propagated' = Append(propagated, [value |-> v, at |-> clock, cause |-> cause,
                                      key |-> Len(keystrokes')])

\* handleInputChange, lines 27-31: setLocalValue(newValue); onChange(newValue)
HandleInputChange(newValue) ==
  /\ Len(keystrokes) < MaxKeystrokes
  /\ keystrokes' = Append(keystrokes, [value |-> newValue, at |-> clock])
  /\ onChange(newValue, "input")
  /\ UNCHANGED clock
  /\ UNCHANGED exceptBar

\* the user types a key or deletes the last character
ChangeEvent ==
  \/ \E c \in Keys : HandleInputChange(Append(localValue, c))
  \/ /\ localValue # <<>>
     /\ HandleInputChange(SubSeq(localValue, 1, Len(localValue) - 1))

\* handleSubmit, lines 33-35, on Enter, on blur or by the search button
HandleSubmit ==
  /\ UNCHANGED <<clock, keystrokes>>
  /\ onChange(localValue, "submit")
  /\ UNCHANGED exceptBar

\* handleClear, lines 49-55, on Escape or by the clear button
HandleClear ==
  /\ UNCHANGED <<clock, keystrokes>>
  /\ onChange(<<>>, "clear")
  /\ UNCHANGED exceptBar

\* a millisecond passes
BarTick ==
  /\ clock < MaxClock
  /\ clock' = clock + 1
  /\ UNCHANGED <<localValue, searchTerm, keystrokes, propagated>>
  /\ UNCHANGED exceptBar

BarInit == ClientIdle /\ ConcIdle /\ DebIdle /\ UtilIdle /\ ViewIdle /\ BarIdle

\* submit and clear are taken while the user has something to propagate
BarNext ==
  \/ ChangeEvent
  \/ Len(propagated) < MaxKeystrokes + 1 /\ HandleSubmit
  \/ Len(propagated) < MaxKeystrokes + 1 /\ HandleClear
  \/ BarTick

BarSpec == BarInit /\ [][BarNext]_vars

\* ---- C18 ----
\* the propagations that typing caused
TypedPropagations == {j \in 1..Len(propagated) : propagated[j].cause = "input"}

\* the keystrokes that were followed by another one in the same millisecond
SameInstant == {k \in 1..Len(keystrokes) - 1 : keystrokes[k + 1].at = keystrokes[k].at}

\* C18: the search input is debounced: a typed value reaches the parent's
\* onChange only after the input has been quiet for the debounce interval,
\* once per burst with the final value, and not once per keystroke.
C18_InputDebounced ==
  /\ \A j \in TypedPropagations :
       propagated[j].at > keystrokes[propagated[j].key].at
  /\ \A k \in SameInstant :
       \A j \in TypedPropagations : propagated[j].key # k

(* ------------------------- filterArticlesBySearch ----------------------- *)
\* most articles in the array passed in
MaxListLen == 2
\* most characters in the search term
MaxTermLen == 2

\* String.prototype.toLowerCase, on the letters used here
LowerChar(c) ==
  CASE c = "A" -> "a"
    [] c = "B" -> "b"
    [] c = "S" -> "s"
    [] OTHER -> c
toLowerCase(s) == [i \in 1..Len(s) |-> LowerChar(s[i])]

\* String.prototype.trim
RECURSIVE TrimEnd(_)
TrimEnd(s) ==
  IF s # <<>> /\ s[Len(s)] = " " THEN TrimEnd(SubSeq(s, 1, Len(s) - 1)) ELSE s
trim(s) == TrimEnd(TrimStart(s))

\* String.prototype.includes
includes(s, t) ==
  \E i \in 0..(Len(s) - Len(t)) : SubSeq(s, i + 1, i + Len(t)) = t

\* the fields of an article the filters read
SpaceflightArticle(t, s, n) == [title |-> t, summary |-> s, news_site |-> n]

Titles ==
  {<<"a">>, <<"B">>, <<"a", "B">>, <<"B", "a">>, <<"A", "b">>, <<"a", " ", "B">>}

ArticlePool ==
  {SpaceflightArticle(t, <<"x">>, <<"S">>) : t \in Titles}
    \cup {SpaceflightArticle(t, <<"a", "b">>, <<"S">>) : t \in Titles}
    \cup {SpaceflightArticle(t, <<"x">>, <<"B">>) : t \in Titles}

RECURSIVE ListsUpTo(_)
ListsUpTo(k) ==
  IF k = 0 THEN {<<>>}
  ELSE LET shorter == ListsUpTo(k - 1)
       IN shorter \cup {Append(l, a) : l \in {m \in shorter : Len(m) = k - 1},
                                       a \in ArticlePool}

TermChars == {"a", "B", " "}
RECURSIVE TermsUpTo(_)
TermsUpTo(k) ==
  IF k = 0 THEN {<<>>}
  ELSE LET shorter == TermsUpTo(k - 1)
       IN shorter \cup {Append(s, c) : s \in {t \in shorter : Len(t) = k - 1},
                                       c \in TermChars}

\* what a call leaves behind: the value returned and the array passed in
Returned(r, arr) == [ret |-> r, arr |-> arr]

\* utils/index.ts filtering without trimming the term
filterArticlesBySearch_NoTrim(list, search) ==
  IF search = <<>> THEN Returned(list, list)
  ELSE LET lowercaseSearch == toLowerCase(search)
       IN Returned(SelectSeq(list, LAMBDA article :
                     includes(toLowerCase(article.title), lowercaseSearch)), list)

\* utils/index.ts comparing the title as written
filterArticlesBySearch_CaseSensitive(list, search) ==
  IF trim(search) = <<>> THEN Returned(list, list)
  ELSE LET lowercaseSearch == toLowerCase(trim(search))
       IN Returned(SelectSeq(list, LAMBDA article :
                     includes(article.title, lowercaseSearch)), list)

\* utils/index.ts, lines 6-18; Array.prototype.filter builds a new array
\* and leaves the one it is called on as it is
filterArticlesBySearch(list, search) ==
  IF trim(search) = <<>> THEN Returned(list, list)
  ELSE LET lowercaseSearch == toLowerCase(trim(search))
       IN Returned(SelectSeq(list, LAMBDA article :
                     includes(toLowerCase(article.title), lowercaseSearch)), list)

\* article-utils.ts, lines 76-97
articleUtilsFilterArticlesBySearch(list, search) ==
  IF trim(search) = <<>> THEN Returned(list, list)
  ELSE LET normalizedSearch == trim(toLowerCase(search))
           titleMatch(article) == includes(toLowerCase(article.title), normalizedSearch)
           summaryMatch(article) == includes(toLowerCase(article.summary), normalizedSearch)
           sourceMatch(article) == includes(toLowerCase(article.news_site), normalizedSearch)
       IN Returned(SelectSeq(list, LAMBDA article :
                     titleMatch(article) \/ summaryMatch(article) \/ sourceMatch(article)),
                   list)

\* the index route filters its list, part_005 line 120
FilterByTitle ==
  /\ result = NotCalled
  /\ LET r == filterArticlesBySearch(input, term)
     IN /\ result' = [by |-> "utils", ret |-> r.ret]
        /\ input' = r.arr
  /\ UNCHANGED <<term, given>>
  /\ UNCHANGED exceptUtil

\* a caller of article-utils.ts filters its list, lines 76-97
FilterByAnyField ==
  /\ result = NotCalled
  /\ LET r == articleUtilsFilterArticlesBySearch(input, term)
     IN /\ result' = [by |-> "article-utils", ret |-> r.ret]
        /\ input' = r.arr
  /\ UNCHANGED <<term, given>>
  /\ UNCHANGED exceptUtil

FilterInit ==
  /\ ClientIdle /\ ConcIdle /\ DebIdle /\ BarIdle /\ ViewIdle
  /\ \E l \in ListsUpTo(MaxListLen), t \in TermsUpTo(MaxTermLen) : UtilInputs(l, t)

FilterNext == FilterByTitle \/ FilterByAnyField

FilterSpec == FilterInit /\ [][FilterNext]_vars

\* ---- C19 ----
Filtered == result # NotCalled

\* C19: for a term that is empty or only whitespace each implementation
\* returns the list unchanged, the same elements in the same order; and the
\* input list is not mutated, whatever the term.
C19_BlankTermIdentity ==
  Filtered =>
    /\ input = given
    /\ trim(term) = <<>> => result.ret = given

\* C19 witness: a list of two different articles came back whole from the
\* title-only filter for a term of two spaces
C19_Witness ==
  /\ result.by = "utils"
  /\ term = <<" ", " ">>
  /\ Len(given) = 2 /\ given[1] # given[2]
  /\ result.ret = given

\* ---- C20 ----
\* the positions whose title contains t, ignoring case
TitleMatches(t) ==
  {i \in 1..Len(given) : includes(toLowerCase(given[i].title), toLowerCase(t))}

\* the positions whose summary or news site contains t, ignoring case
OtherFieldMatches(t) ==
  {i \in 1..Len(given) :
     \/ includes(toLowerCase(given[i].summary), toLowerCase(t))
     \/ includes(toLowerCase(given[i].news_site), toLowerCase(t))}

\* the list holding the one article at a position of S
OnlyArticle(S) == <<given[CHOOSE i \in S : TRUE]>>

\* C20 as stated: for a term that, ignoring case, is a substring of exactly
\* one article's title, each implementation returns exactly that article.
C20_OneTitleMatchAsStated ==
  Filtered /\ Cardinality(TitleMatches(term)) = 1
    => result.ret = OnlyArticle(TitleMatches(term))

\* C20: for a term whose trimmed form is not empty and, ignoring case, is a
\* substring of exactly one article's title, the title-only filter returns
\* exactly that article; so does the title, summary and site filter when
\* the trimmed term occurs in no other article's summary or news site.
C20_OneTitleMatch ==
  LET t == trim(term)
  IN Filtered /\ t # <<>> /\ Cardinality(TitleMatches(t)) = 1
       /\ (result.by = "article-utils" => OtherFieldMatches(t) \subseteq TitleMatches(t))
     => result.ret = OnlyArticle(TitleMatches(t))

\* C20 witness: the term " B", trimmed and lowered, is found in the title
\* "aB" of the second of two articles and nowhere else, and the title,
\* summary and site filter returned that article alone
C20_Witness ==
  /\ result.by = "article-utils"
  /\ term = <<" ", "B">>
  /\ Len(given) = 2
  /\ given[1].title = <<"a">> /\ given[2].title = <<"a", "B">>
  /\ OtherFieldMatches(trim(term)) = {}
  /\ result.ret = <<given[2]>>

(* ------------------------------ sortArticles ---------------------------- *)
\* most articles in the array passed to sortArticles
MaxSortLen == 3

\* new Date(s).getTime() for the strings used here, in seconds since the
\* epoch; NaN for a string that does not parse
getTime(s) ==
  CASE s = "2024-01-20T15:30:00Z" -> Num(1705764600)
    [] s = "2024-01-15T10:00:00Z" -> Num(1705312800)
    [] s = "2024-01-10T08:45:00Z" -> Num(1704876300)
    [] OTHER -> NaN

\* x - y on numbers
Minus(x, y) == IF x.nan \/ y.nan THEN NaN ELSE Num(x.n - y.n)

\* what Array.prototype.sort makes of the number a comparator returned:
\* NaN counts as +0
SortCompare(v) ==
  IF v.nan THEN 0 ELSE IF v.n < 0 THEN -1 ELSE IF v.n > 0 THEN 1 ELSE 0

\* the place of a lower-case character in the "en" collation
Rank(c) ==
  CASE c = " " -> 0
    [] c = "a" -> 1
    [] c = "b" -> 2
    [] c = "s" -> 3
    [] OTHER -> 4

\* s against t, character by character, by rank
RECURSIVE LexCompare(_, _)
LexCompare(s, t) ==
  IF s = <<>> /\ t = <<>> THEN 0
  ELSE IF s = <<>> THEN -1
  ELSE IF t = <<>> THEN 1
  ELSE IF Rank(Head(s)) < Rank(Head(t)) THEN -1
  ELSE IF Rank(Head(s)) > Rank(Head(t)) THEN 1
  ELSE LexCompare(Tail(s), Tail(t))

\* strings equal but for case: the first difference decides, lower case first
RECURSIVE CaseCompare(_, _)
CaseCompare(s, t) ==
  IF s = <<>> \/ t = <<>> THEN 0
  ELSE IF Head(s) = Head(t) THEN CaseCompare(Tail(s), Tail(t))
  ELSE IF Head(s) = LowerChar(Head(s)) THEN -1 ELSE 1

\* s.localeCompare(t), the runtime's locale collating as "en" does
localeCompare(s, t) ==
  LET base == LexCompare(toLowerCase(s), toLowerCase(t))
  IN IF base # 0 THEN base ELSE CaseCompare(s, t)

\* s.localeCompare(t, "en", { sensitivity: "base" })
localeCompareBase(s, t) == LexCompare(toLowerCase(s), toLowerCase(t))

\* the orders an array of n elements can be put in
Perms(n) == {p \in [1..n -> 1..n] : \A i, j \in 1..n : i # j => p[i] # p[j]}

\* what the comparator answers for each pair of positions of list
Answers(list, cmp(_, _)) ==
  [i \in 1..Len(list) |-> [j \in 1..Len(list) |-> cmp(list[i], list[j])]]

\* the answers m are those of a consistent comparator
Consistent(m) ==
  \A i, j, k \in DOMAIN m :
    /\ m[i][i] = 0
    /\ m[i][j] = -m[j][i]
    /\ m[i][j] <= 0 /\ m[j][k] <= 0 => m[i][k] <= 0

\* the elements a stable sort puts before element i: those the answers m
\* put before it, and those equal to it that stood before it
Before(m, i) == {j \in DOMAIN m : m[j][i] < 0 \/ (m[j][i] = 0 /\ j < i)}

\* the order of a stable sort by the answers m of a consistent comparator
StableOrder(m) ==
  [r \in DOMAIN m |-> CHOOSE i \in DOMAIN m : Cardinality(Before(m, i)) = r - 1]

\* the order a sort ends in, given the answers m of the comparator: the
\* sort is stable; with a comparator that is not consistent the order is
\* the engine's choice, pick
OrderFrom(m, pick) == IF Consistent(m) THEN StableOrder(m) ELSE pick

\* Array.prototype.sort: the order the elements of list end up in
SortOrder(list, cmp(_, _), pick) ==
  CHOOSE p \in {OrderFrom(m, pick) : m \in {Answers(list, cmp)}} : TRUE

Permuted(list, p) == [i \in 1..Len(list) |-> list[p[i]]]

\* what a sortArticles call leaves behind: the array returned, the order
\* its elements were taken in, the array passed in, and whether the array
\* returned is a new one
Sorted(list, p, arr, fresh) ==
  CHOOSE r \in {[ret |-> Permuted(list, q), order |-> q, arr |-> arr, fresh |-> fresh] :
                  q \in {p}} : TRUE

Unsorted(list) == [i \in 1..Len(list) |-> i]

byTitle(a, b) == localeCompare(a.title, b.title)
byTitleBase(a, b) == localeCompareBase(a.title, b.title)
byDate(a, b) == SortCompare(Minus(getTime(b.published_at), getTime(a.published_at)))

\* the orders an engine may choose from when it sorts list: one has to be
\* chosen only where the comparator in use is not consistent, and the
\* title comparators are
EnginePicks(list, by) ==
  IF by = "date" /\ \E m \in {Answers(list, byDate)} : ~Consistent(m)
  THEN Perms(Len(list))
  ELSE {[i \in 1..Len(list) |-> i]}

\* utils/index.ts sorting the array it was given
sortArticles_InPlace(list, by, pick) ==
  LET p == CASE by = "title" -> SortOrder(list, byTitle, pick)
             [] by = "date" -> SortOrder(list, byDate, pick)
             [] OTHER -> Unsorted(list)
      r == Sorted(list, p, list, FALSE)
  IN [r EXCEPT !.arr = r.ret]

\* utils/index.ts comparing the titles the other way round
sortArticles_Descending(list, by, pick) ==
  LET byTitleDown(a, b) == localeCompare(b.title, a.title)
  IN CASE by = "title" -> Sorted(list, SortOrder(list, byTitleDown, pick), list, TRUE)
       [] by = "date" -> Sorted(list, SortOrder(list, byDate, pick), list, TRUE)
       [] OTHER -> Sorted(list, Unsorted(list), list, TRUE)

\* utils/index.ts comparing the dates the other way round
sortArticles_OldestFirst(list, by, pick) ==
  LET byDateUp(a, b) ==
        SortCompare(Minus(getTime(a.published_at), getTime(b.published_at)))
  IN CASE by = "title" -> Sorted(list, SortOrder(list, byTitle, pick), list, TRUE)
       [] by = "date" -> Sorted(list, SortOrder(list, byDateUp, pick), list, TRUE)
       [] OTHER -> Sorted(list, Unsorted(list), list, TRUE)

\* utils/index.ts, lines 23-41: [...articles] is a new array, sort sorts
\* that array in place and returns it
sortArticles(list, by, pick) ==
  CASE by = "title" -> Sorted(list, SortOrder(list, byTitle, pick), list, TRUE)
    [] by = "date" -> Sorted(list, SortOrder(list, byDate, pick), list, TRUE)
    [] OTHER -> Sorted(list, Unsorted(list), list, TRUE)

\* article-utils.ts, lines 102-124
articleUtilsSortArticles(list, by, pick) ==
  CASE by = "title" -> Sorted(list, SortOrder(list, byTitleBase, pick), list, TRUE)
    [] by = "date" -> Sorted(list, SortOrder(list, byDate, pick), list, TRUE)
    [] OTHER -> Sorted(list, Unsorted(list), list, TRUE)

\* the articles sorted here: the fields the sort and the filters read
DatedArticle(t, d) ==
  [title |-> t, summary |-> <<"x">>, news_site |-> <<"S">>, published_at |-> d]

\* titles that are equal, differ in case only or differ; dates that are
\* equal, differ or do not parse
SortPool ==
  {DatedArticle(<<"a">>, "2024-01-20T15:30:00Z"),
   DatedArticle(<<"a">>, "2024-01-10T08:45:00Z"),
   DatedArticle(<<"A">>, "2024-01-20T15:30:00Z"),
   DatedArticle(<<"A">>, "invalid-date"),
   DatedArticle(<<"b">>, "2024-01-10T08:45:00Z"),
   DatedArticle(<<"b">>, "invalid-date")}

RECURSIVE SortListsUpTo(_)
SortListsUpTo(k) ==
  IF k = 0 THEN {<<>>}
  ELSE LET shorter == SortListsUpTo(k - 1)
       IN shorter \cup {Append(l, a) : l \in {m \in shorter : Len(m) = k - 1},
                                       a \in SortPool}

\* "relevance" stands for a value outside the SortBy type
Criteria == {"title", "date", "relevance"}
SortTerms == {<<>>, <<"a">>}

\* sortArticles of utils/index.ts is called on the array
SortArticles ==
  /\ result = NotCalled
  /\ \E pick \in EnginePicks(input, criterion) :
       \E r \in {sortArticles(input, criterion, pick)} :
          /\ result' = [by |-> "utils", ret |-> r.ret, order |-> r.order,
                        fresh |-> r.fresh]
          /\ input' = r.arr
  /\ UNCHANGED <<term, given, viewVars, barVars>>
  /\ UNCHANGED exceptView

\* sortArticles of article-utils.ts is called on the array
ArticleUtilsSortArticles ==
  /\ result = NotCalled
  /\ \E pick \in EnginePicks(input, criterion) :
       \E r \in {articleUtilsSortArticles(input, criterion, pick)} :
          /\ result' = [by |-> "article-utils", ret |-> r.ret, order |-> r.order,
                        fresh |-> r.fresh]
          /\ input' = r.arr
  /\ UNCHANGED <<term, given, viewVars, barVars>>
  /\ UNCHANGED exceptView

SortInit ==
  /\ ClientIdle /\ ConcIdle /\ DebIdle /\ BarIdle
  /\ FormatIdle /\ DomainIdle /\ ControlsIdle
  /\ criterion \in Criteria
  /\ \E l \in SortListsUpTo(MaxSortLen), t \in SortTerms : UtilInputs(l, t)

\* ---- C21 ----
SortedBy(m) == result.by = m
SortedByEither == SortedBy("utils") \/ SortedBy("article-utils")

\* C21: sortArticles never mutates its input: whatever the criterion, the
\* input list has the same elements in the same order after the call, and
\* the list returned is a distinct one.
C21_InputNotMutated ==
  SortedByEither => input = given /\ result.fresh

\* C21 witness: a list that was out of order by title came back sorted
\* while the caller's array kept its order
C21_Witness ==
  /\ SortedBy("utils")
  /\ criterion = "title"
  /\ Len(given) = 2
  /\ given[1].title = <<"b">> /\ given[2].title = <<"a">>
  /\ result.ret = <<given[2], given[1]>>
  /\ input = given

\* ---- C22 ----
\* the parsed timestamp of an article, the epoch when it does not parse
ParsedOrEpoch(a) ==
  LET t == getTime(a.published_at) IN IF t.nan THEN 0 ELSE t.n

\* C22: sortArticles(list, "date") returns the articles newest first: the
\* output is non-increasing by parsed timestamp, an article whose timestamp
\* does not parse counting as oldest and so coming after every article
\* whose timestamp parses.
C22_NewestFirst ==
  SortedBy("utils") /\ criterion = "date"
    => \A i, j \in 1..Len(result.ret) :
         i < j => ParsedOrEpoch(result.ret[i]) >= ParsedOrEpoch(result.ret[j])

SortWithBoth ==
  /\ result = NotCalled
  /\ \E pick \in EnginePicks(input, criterion) :
       result' = [by |-> "both",
                  utils |-> sortArticles(input, criterion, pick).ret,
                  articleUtils |-> articleUtilsSortArticles(input, criterion, pick).ret]
  /\ UNCHANGED <<input, term, given, viewVars, barVars>>
  /\ UNCHANGED exceptView

\* Index, part_005 lines 119-122: filter, then sort; next to it the two
\* steps taken the other way round. One engine sorts both times: given the
\* same array it ends in the same order
FilterAndSort ==
  /\ result = NotCalled
  /\ LET filtered == filterArticlesBySearch(input, term).ret
     IN \E p1 \in EnginePicks(filtered, criterion),
           p2 \in EnginePicks(input, criterion) :
          /\ filtered = input => p1 = p2
          /\ result' = [by |-> "page",
                     ret |-> sortArticles(filtered, criterion, p1).ret,
                     swapped |-> filterArticlesBySearch(
                                   sortArticles(input, criterion, p2).ret, term).ret]
  /\ UNCHANGED <<input, term, given, viewVars, barVars>>
  /\ UNCHANGED exceptView

\* processArticles, article-utils.ts lines 129-136, and the same the other
\* way round
ProcessArticles ==
  /\ result = NotCalled
  /\ LET filtered == articleUtilsFilterArticlesBySearch(input, term).ret
     IN \E p1 \in EnginePicks(filtered, criterion),
           p2 \in EnginePicks(input, criterion) :
          /\ filtered = input => p1 = p2
          /\ result' = [by |-> "processArticles",
                     ret |-> articleUtilsSortArticles(filtered, criterion, p1).ret,
                     swapped |-> articleUtilsFilterArticlesBySearch(
                                   articleUtilsSortArticles(input, criterion, p2).ret,
                                   term).ret]
  /\ UNCHANGED <<input, term, given, viewVars, barVars>>
  /\ UNCHANGED exceptView

SortNext ==
  \/ SortArticles
  \/ ArticleUtilsSortArticles
  \/ SortWithBoth
  \/ FilterAndSort
  \/ ProcessArticles

SortSpec == SortInit /\ [][SortNext]_vars

\* ---- C29 ----
\* C29: filtering and sorting commute: sorting the filtered list gives the
\* list that filtering the sorted list gives, for every list, term and
\* criterion.
C29_FilterSortCommute ==
  SortedBy("page") \/ SortedBy("processArticles") => result.ret = result.swapped

\* ---- C30 ----
\* two titles that differ in the case of their letters only
DifferInCaseOnly(s, t) == s # t /\ toLowerCase(s) = toLowerCase(t)

MaxElapsedDays == 31
MaxFutureDays == 2

Minute == 60
Hour == 60 * Minute
Day == 24 * Hour

\* what is shown: the number interpolated in the template literal, if any,
\* and the words
Shown(ns, w) == [count |-> ns, words |-> w]

UnknownDate == Shown(<<>>, "Unknown date")

\* date.toLocaleDateString("en-US", {year, month: "long", day}), rendered
\* for a runtime whose time zone is UTC
toLocaleDateString(s) ==
  CASE s = "2024-01-20T15:30:00Z" -> Shown(<<>>, "January 20, 2024")
    [] s = "2024-01-15T10:00:00Z" -> Shown(<<>>, "January 15, 2024")
    [] s = "2024-01-10T08:45:00Z" -> Shown(<<>>, "January 10, 2024")

\* article-utils.ts lines 6-20
formatPublishedDate(s) ==
  IF getTime(s).nan THEN UnknownDate ELSE toLocaleDateString(s)

\* article-utils.ts lines 25-61; \div rounds down as Math.floor does
formatRelativeTime(s, clockNow) ==
  IF getTime(s).nan THEN UnknownDate
  ELSE LET diffInMs == clockNow - getTime(s).n
           diffInDays == diffInMs \div Day
           diffInHours == diffInMs \div Hour
           diffInMinutes == diffInMs \div Minute
           weeks == diffInDays \div 7
       IN CASE diffInDays = 0 /\ diffInHours = 0 ->
                 IF diffInMinutes <= 1 THEN Shown(<<>>, "Just now")
                 ELSE Shown(<<diffInMinutes>>, " minutes ago")
            [] diffInDays = 0 /\ diffInHours # 0 ->
                 IF diffInHours = 1 THEN Shown(<<>>, "1 hour ago")
                 ELSE Shown(<<diffInHours>>, " hours ago")
            [] diffInDays = 1 -> Shown(<<>>, "Yesterday")
            [] diffInDays # 0 /\ diffInDays # 1 /\ diffInDays < 7 ->
                 Shown(<<diffInDays>>, " days ago")
            [] diffInDays >= 7 /\ diffInDays < 30 ->
                 IF weeks = 1 THEN Shown(<<>>, "1 week ago")
                 ELSE Shown(<<weeks>>, " weeks ago")
            [] OTHER -> formatPublishedDate(s)

\* the timestamps formatted: the three of the test fixtures and one that
\* does not parse
DateStrings ==
  {"2024-01-20T15:30:00Z", "2024-01-15T10:00:00Z", "2024-01-10T08:45:00Z",
   "invalid-date"}

\* seconds into a day on either side of each boundary inside the day
SecondsOfDay ==
  {0, 1, Minute - 1, Minute, 2 * Minute - 1, 2 * Minute, Hour - 1, Hour,
   2 * Hour - 1, 2 * Hour, Day - 1}

\* the elapsed times explored, future timestamps included
ElapsedTimes ==
  {d * Day + s : d \in (0 - MaxFutureDays)..MaxElapsedDays, s \in SecondsOfDay}

\* the clock when the timestamp was published elapsed seconds ago; an
\* unparseable timestamp has no such moment and the clock is anything
ClockAfter(s, elapsed) ==
  IF getTime(s).nan THEN getTime("2024-01-20T15:30:00Z").n + elapsed
  ELSE getTime(s).n + elapsed

FormatInit ==
  /\ ClientIdle /\ ConcIdle /\ DebIdle /\ BarIdle /\ UtilIdle
  /\ SortIdle /\ DomainIdle /\ ControlsIdle
  /\ dateString \in DateStrings
  /\ \E e \in ElapsedTimes : currentTime = ClockAfter(dateString, e)
  /\ formatted = NotFormatted

\* formatRelativeTime(dateString) is called when the clock reads currentTime
FormatRelativeTime ==
  /\ formatted = NotFormatted
  /\ formatted' = formatRelativeTime(dateString, currentTime)
  /\ UNCHANGED <<criterion, dateString, currentTime, urlArg, domain, sortBy,
                 disabled, clicks, sortChanges>>
  /\ UNCHANGED <<utilVars, barVars>>
  /\ UNCHANGED exceptView

FormatNext == FormatRelativeTime

FormatSpec == FormatInit /\ [][FormatNext]_vars

\* ---- C24 ----
\* the seconds elapsed between the timestamp and the clock
Elapsed == currentTime - getTime(dateString).n

\* the buckets as documented
Documented(s, elapsed) ==
  CASE elapsed < Minute -> Shown(<<>>, "Just now")
    [] elapsed >= Minute /\ elapsed < Hour ->
         Shown(<<elapsed \div Minute>>, " minutes ago")
    [] elapsed >= Hour /\ elapsed < 2 * Hour -> Shown(<<>>, "1 hour ago")
    [] elapsed >= 2 * Hour /\ elapsed < Day ->
         Shown(<<elapsed \div Hour>>, " hours ago")
    [] elapsed >= Day /\ elapsed < 2 * Day -> Shown(<<>>, "Yesterday")
    [] elapsed >= 2 * Day /\ elapsed < 7 * Day ->
         Shown(<<elapsed \div Day>>, " days ago")
    [] elapsed >= 7 * Day /\ elapsed < 14 * Day -> Shown(<<>>, "1 week ago")
    [] elapsed >= 14 * Day /\ elapsed < 30 * Day ->
         Shown(<<(elapsed \div Day) \div 7>>, " weeks ago")
    [] OTHER -> formatPublishedDate(s)

Formatted == formatted # NotFormatted /\ ~getTime(dateString).nan

\* C24: for every parseable timestamp formatRelativeTime shows the
\* documented bucket of the elapsed time: "Just now" under a minute,
\* "N minutes ago" under an hour, "N hour(s) ago" under a day, "Yesterday"
\* at one day, "N days ago" from 2 to 6 days, "N week(s) ago" from 7 to 29
\* days, the absolute date from 30 days on, and the N shown is never
\* negative.
C24_Buckets ==
  Formatted =>
    /\ formatted = Documented(dateString, Elapsed)
    /\ \A i \in 1..Len(formatted.count) : formatted.count[i] >= 0

\* ---------------------------------------------------------------------
\* extractDomain, article-utils.ts lines 164-171.  Strings are sequences of
\* characters.
\* ---------------------------------------------------------------------

\* most labels in a host name
MaxLabels == 3

\* String.prototype.startsWith
startsWith(s, p) == Len(s) >= Len(p) /\ SubSeq(s, 1, Len(p)) = p

\* String.prototype.indexOf, 0-based, -1 when absent
indexOf(s, p) ==
  LET found == {i \in 0..(Len(s) - Len(p)) : SubSeq(s, i + 1, i + Len(p)) = p}
  IN IF found = {} THEN 0 - 1
     ELSE CHOOSE i \in found : \A j \in found : i <= j

\* String.prototype.slice(from, to)
slice(s, from, to) == SubSeq(s, from + 1, to)

\* String.prototype.replace with a string pattern: the first occurrence,
\* wherever it is, is replaced
replace(s, p, by) ==
  LET i == indexOf(s, p)
  IN IF i < 0 THEN s
     ELSE slice(s, 0, i) \o by \o slice(s, i + Len(p), Len(s))

HttpsScheme == <<"h", "t", "t", "p", "s", ":">>
DoubleSlash == <<"/", "/">>
WwwDot == <<"w", "w", "w", ".">>
UnknownSource == <<"Unknown source">>

\* new URL(url) for the strings formed here: an absolute URL has a scheme,
\* "//" and a host that is not empty; the host name ends at the port or at
\* the path.  Anything else throws a TypeError.
ParseURL(url) ==
  LET afterScheme == slice(url, Len(HttpsScheme), Len(url))
      rest == slice(afterScheme, Len(DoubleSlash), Len(afterScheme))
      slash == indexOf(rest, <<"/">>)
      authority == IF slash < 0 THEN rest ELSE slice(rest, 0, slash)
      colon == indexOf(authority, <<":">>)
      host == IF colon < 0 THEN authority ELSE slice(authority, 0, colon)
  IN IF startsWith(url, HttpsScheme) /\ startsWith(afterScheme, DoubleSlash)
        /\ host # <<>>
     THEN [ok |-> TRUE, hostname |-> host]
     ELSE [ok |-> FALSE, hostname |-> <<>>]

\* article-utils.ts lines 164-171
extractDomain(url) ==
  LET parsedUrl == ParseURL(url)
  IN IF parsedUrl.ok THEN replace(parsedUrl.hostname, WwwDot, <<>>)
     ELSE UnknownSource

\* the labels of the host names formed
Labels ==
  {<<"w", "w", "w">>, <<"a", "w", "w", "w">>, <<"a">>, <<"e", "x">>,
   <<"c", "o", "m">>}

\* host names of up to k labels joined by dots
RECURSIVE HostsUpTo(_)
HostsUpTo(k) ==
  IF k = 1 THEN Labels
  ELSE LET shorter == HostsUpTo(k - 1)
       IN shorter \cup {l \o <<".">> \o h : l \in Labels, h \in shorter}

\* the strings passed: with and without scheme, host, port and path
UrlStrings ==
  {s \o h \o p \o q :
     s \in {<<>>, HttpsScheme \o DoubleSlash},
     h \in HostsUpTo(MaxLabels) \cup {<<>>},
     p \in {<<>>, <<":", "8">>},
     q \in {<<>>, <<"/", "p">>}}

NotExtracted == <<>>

DomainInit ==
  /\ ClientIdle /\ ConcIdle /\ DebIdle /\ BarIdle /\ UtilIdle
  /\ SortIdle /\ FormatIdle /\ ControlsIdle
  /\ urlArg \in UrlStrings
  /\ domain = NotExtracted

\* extractDomain(urlArg) is called
ExtractDomain ==
  /\ domain = NotExtracted
  /\ domain' = extractDomain(urlArg)
  /\ UNCHANGED <<criterion, dateString, currentTime, formatted, urlArg, sortBy,
                 disabled, clicks, sortChanges>>
  /\ UNCHANGED <<utilVars, barVars>>
  /\ UNCHANGED exceptView

DomainNext == ExtractDomain

DomainSpec == DomainInit /\ [][DomainNext]_vars

\* ---- C25 ----
\* the host with only a leading "www." removed
WithoutLeadingWww(host) ==
  IF startsWith(host, WwwDot) THEN slice(host, Len(WwwDot), Len(host))
  ELSE host

\* C25: for a string that parses as an absolute URL extractDomain returns
\* the host with only a leading "www." removed, a host without a leading
\* "www." unchanged; for a string that does not parse it returns
\* "Unknown source".
C25_LeadingWwwOnly ==
  domain # NotExtracted =>
    IF ParseURL(urlArg).ok
    THEN domain = WithoutLeadingWww(ParseURL(urlArg).hostname)
    ELSE domain = UnknownSource

\* ---------------------------------------------------------------------
\* The articles page: Index (part_005 lines 114-134 and 335-362) with its
\* SearchBar and its SortControls (part_011 lines 250-260 and 320-350).
\* ---------------------------------------------------------------------

\* most clicks on the sort buttons
MaxClicks == 2
\* most changes of the search the search bar passes to the page
MaxEdits == 2

\* the buttons of SortControls, part_011 lines 326 and 344
SortButtons == {"date", "title"}

\* a variant of Index's handler that also resets the search
Index_handleSortChange_ResetsSearch(newSortBy) ==
  /\ sortBy' = newSortBy
  /\ searchTerm' = <<>>
  /\ localValue' = <<>>

\* Index's handleSortChange, part_005 lines 132-134: setSortBy(newSortBy)
Index_handleSortChange(newSortBy) ==
  /\ sortBy' = newSortBy
  /\ UNCHANGED <<searchTerm, localValue>>

\* a variant of the component's handler without the two tests
handleSortChange_Unguarded(newSortBy) ==
  /\ sortChanges' = Append(sortChanges,
                           [value |-> newSortBy, click |-> Len(clicks')])
  /\ Index_handleSortChange(newSortBy)

\* SortControls' handleSortChange, part_011 lines 256-260; onSortChange is
\* Index's handleSortChange (part_005 line 342)
handleSortChange(newSortBy) ==
  IF ~disabled /\ newSortBy # sortBy
  THEN /\ sortChanges' = Append(sortChanges,
                                [value |-> newSortBy, click |-> Len(clicks')])
       /\ Index_handleSortChange(newSortBy)
  ELSE UNCHANGED <<sortChanges, sortBy, searchTerm, localValue>>

\* the user clicks a sort button: onClick={() => handleSortChange(c)}
ClickSort ==
  /\ Len(clicks) < MaxClicks
  /\ \E c \in SortButtons :
       /\ clicks' = Append(clicks, [criterion |-> c, sortBy |-> sortBy,
                                    disabled |-> disabled, term |-> searchTerm])
       /\ handleSortChange(c)
  /\ UNCHANGED <<criterion, dateString, currentTime, formatted, urlArg, domain,
                 disabled>>
  /\ UNCHANGED <<clock, keystrokes, propagated, utilVars>>
  /\ UNCHANGED exceptView

\* Index's handleClearSearch, part_005 lines 128-130, the action of the
\* empty state shown when the search matches nothing (line 360)
HandleClearSearch ==
  /\ searchTerm # <<>>
  /\ searchTerm' = <<>>
  /\ localValue' = <<>>
  /\ UNCHANGED <<clock, keystrokes, propagated, utilVars, viewVars>>
  /\ UNCHANGED exceptView

\* the page as first rendered; the loader's data decide disabled (line 343)
PageInit ==
  /\ ClientIdle /\ ConcIdle /\ DebIdle /\ BarIdle /\ UtilIdle
  /\ SortIdle /\ FormatIdle /\ DomainIdle
  /\ sortBy = "date"
  /\ disabled \in BOOLEAN
  /\ clicks = <<>>
  /\ sortChanges = <<>>

PageNext ==
  \/ Len(propagated) < MaxEdits /\ ChangeEvent
  \/ Len(propagated) < MaxEdits /\ HandleSubmit
  \/ Len(propagated) < MaxEdits /\ HandleClear
  \/ HandleClearSearch
  \/ ClickSort

PageSpec == PageInit /\ [][PageNext]_vars

\* ---- C26 ----
\* a step in which a sort button is clicked
SortSelected == Len(clicks') > Len(clicks)

\* a step in which the search is typed in, submitted or cleared
SearchEdited == Len(propagated') > Len(propagated) \/ searchTerm' # searchTerm

\* C26: search and sort state are independent: selecting a sort criterion
\* leaves the search term unchanged, typing in or clearing the search leaves
\* the sort criterion unchanged, and the sort criterion, initially date,
\* changes only through an explicit sort selection, to the criterion selected.
C26_SearchSortIndependent ==
  /\ sortBy = "date"
  /\ [][/\ SortSelected => searchTerm' = searchTerm /\ localValue' = localValue
        /\ SearchEdited => sortBy' = sortBy
        /\ sortBy' # sortBy =>
             SortSelected /\ sortBy' = clicks'[Len(clicks')].criterion]_vars

\* C26 witness: title was selected while the search read "a", which the
\* selection left as it was, and after the search was cleared the criterion
\* is still title
C26_Witness ==
  /\ sortBy = "title"
  /\ Len(clicks) = 1 /\ clicks[1].term = <<"a">> /\ clicks[1].sortBy = "date"
  /\ searchTerm = <<>>
  /\ Len(propagated) = 2
  /\ propagated[1].value = <<"a">> /\ propagated[2].cause = "clear"

\* ---- C27 ----
\* the calls of onSortChange click k led to
CallsOf(k) == {j \in 1..Len(sortChanges) : sortChanges[j].click = k}

\* click k was on a button other than the active one while enabled
Effective(k) == ~clicks[k].disabled /\ clicks[k].criterion # clicks[k].sortBy

\* C27: onSortChange is invoked only when the control is enabled and the
\* clicked criterion differs from the current one, and then exactly once
\* with the clicked criterion; a click on the active button, or on any
\* button while disabled, invokes nothing.
C27_OnlyEffectiveClicks ==
  \A k \in 1..Len(clicks) :
    /\ Effective(k) => Cardinality(CallsOf(k)) = 1
    /\ ~Effective(k) => CallsOf(k) = {}
    /\ \A j \in CallsOf(k) : sortChanges[j].value = clicks[k].criterion

\* C27 witness: the active date button was clicked, then title, and
\* onSortChange was called once, with title, by the second click
C27_Witness ==
  /\ ~disabled
  /\ Len(clicks) = 2
  /\ clicks[1].criterion = "date" /\ clicks[2].criterion = "title"
  /\ Len(sortChanges) = 1
  /\ sortChanges[1] = [value |-> "title", click |-> 2]

\* ---- C28 ----
\* the 10 second timer of makeRequest is still set
TimerPending == timer = "armed"

\* the timer callback runs in this step
TimerRuns == timer # "fired" /\ timer' = "fired"

\* C28: on every exit path of makeRequest (a response, a non-2xx response,
\* an abort, a transport failure, a thrown value that is not an Error) the
\* timer has been cancelled when the call returns or throws: no timer is
\* pending once makeRequest has settled and the abort callback never runs
\* after that.
C28_TimerAlwaysCancelled ==
  /\ [](MakeRequestSettled => ~TimerPending)
  /\ [][MakeRequestSettled => ~TimerRuns]_vars

\* C28 witness: the transport failed, makeRequest threw from its catch block
\* and the timer is cleared
C28_Witness ==
  /\ net = "failed"
  /\ mrResult.kind = "throw"
  /\ timer = "cleared"

====
